---- MODULE Spec2Model ----
(***************************************************************************)
(* Model of github.com/scagogogo/php-composer-json-parser: the package     *)
(* name grammar, the dependency map operations, the PSR-4 namespace map    *)
(* operations and the ComposerJSON document that aggregates them.          *)
(*                                                                         *)
(* Strings are sequences of characters; a character is a one-character     *)
(* TLA+ string.  Go maps are reference values: they live in `heap` and     *)
(* the document holds their addresses (0 is the nil map).                  *)
(***************************************************************************)
EXTENDS Integers, Sequences, FiniteSets, TLC

VARIABLES heap, doc, result, call, ret, crashed, lastOp

vars == <<heap, doc, result, call, ret, crashed, lastOp>>

(***************************************************************************)
(* Bounds of the model.                                                    *)
(***************************************************************************)
MaxNameLen == 4

MaxVersionLen == 5

MaxCreateNameLen == 3

MaxJsonLen == 4

(***************************************************************************)
(* Characters and character classes.                                       *)
(***************************************************************************)
Lower == {"a","b","c","d","e","f","g","h","i","j","k","l","m",
          "n","o","p","q","r","s","t","u","v","w","x","y","z"}

Digit == {"0","1","2","3","4","5","6","7","8","9"}

\* the characters package names are drawn from: a lower-case letter, a digit,
\* two of the separators, the slash, an upper-case letter and a foreign one
NameChars == {"a", "0", "-", ".", "/", "A", "$"}

RECURSIVE SeqsUpTo(_, _)
SeqsUpTo(S, n) ==
    IF n = 0 THEN {<<>>}
    ELSE LET P == SeqsUpTo(S, n - 1)
         IN  P \cup {Append(p, c) : p \in {q \in P : Len(q) = n - 1}, c \in S}

NameInputs == SeqsUpTo(NameChars, MaxNameLen)

(***************************************************************************)
(* Regular expressions (package regexp).  A pattern is a tree; Ends gives  *)
(* the positions at which a match of the pattern starting at i can end.    *)
(***************************************************************************)
Cls(C)  == [t |-> "cls",  c |-> C,  rs |-> <<>>]
Cat(rs) == [t |-> "cat",  c |-> {}, rs |-> rs]
Alt(rs) == [t |-> "alt",  c |-> {}, rs |-> rs]
Opt(r)  == [t |-> "opt",  c |-> {}, rs |-> <<r>>]
Star(r) == [t |-> "star", c |-> {}, rs |-> <<r>>]
Plus(r) == [t |-> "plus", c |-> {}, rs |-> <<r>>]
Bol     == [t |-> "bol",  c |-> {}, rs |-> <<>>]
Eol     == [t |-> "eol",  c |-> {}, rs |-> <<>>]

RECURSIVE Ends(_, _, _)
RECURSIVE CatEnds(_, _, _, _)
RECURSIVE StarEnds(_, _, _)

Ends(re, s, i) ==
    CASE re.t = "cls"  -> IF i <= Len(s) /\ s[i] \in re.c THEN {i + 1} ELSE {}
      [] re.t = "bol"  -> IF i = 1 THEN {i} ELSE {}
      [] re.t = "eol"  -> IF i = Len(s) + 1 THEN {i} ELSE {}
      [] re.t = "cat"  -> CatEnds(re.rs, 1, s, {i})
      [] re.t = "alt"  -> UNION {Ends(re.rs[k], s, i) : k \in 1..Len(re.rs)}
      [] re.t = "opt"  -> {i} \cup Ends(re.rs[1], s, i)
      [] re.t = "star" -> StarEnds(re.rs[1], s, {i})
      [] re.t = "plus" -> StarEnds(re.rs[1], s, Ends(re.rs[1], s, i))

CatEnds(rs, k, s, P) ==
    IF k > Len(rs) THEN P
    ELSE CatEnds(rs, k + 1, s, UNION {Ends(rs[k], s, p) : p \in P})

StarEnds(r, s, P) ==
    LET N == P \cup UNION {Ends(r, s, p) : p \in P}
    IN  IF N = P THEN P ELSE StarEnds(r, s, N)

\* (*Regexp).MatchString: an unanchored search
MatchString(re, s) == \E i \in 1..(Len(s) + 1) : Ends(re, s, i) # {}

(***************************************************************************)
(* package dependency: the name grammar.                                   *)
(***************************************************************************)
\* strings.Split(s, sep) for a one-character separator
RECURSIVE Split(_, _)
Split(s, sep) ==
    IF \A i \in 1..Len(s) : s[i] # sep THEN <<s>>
    ELSE LET i == CHOOSE j \in 1..Len(s) :
                      s[j] = sep /\ \A k \in 1..(j - 1) : s[k] # sep
         IN  <<SubSeq(s, 1, i - 1)>> \o Split(SubSeq(s, i + 1, Len(s)), sep)

\* `^[a-z0-9]([_.-]?[a-z0-9]+)*$`
validNameRegex ==
    Cat(<<Bol, Cls(Lower \cup Digit),
          Star(Cat(<<Opt(Cls({"_", ".", "-"})), Plus(Cls(Lower \cup Digit))>>)),
          Eol>>)

\* the result is the kind of the error returned, "nil" for no error
ValidatePackageName_ProjectFirst(packageName) ==
    IF packageName = <<>> THEN "EmptyName"
    ELSE LET parts == Split(packageName, "/")
         IN  IF Len(parts) # 2 THEN "MalformedName"
             ELSE IF ~MatchString(validNameRegex, parts[2])
                  THEN "InvalidProjectSegment"
             ELSE IF ~MatchString(validNameRegex, parts[1])
                  THEN "InvalidVendorSegment"
             ELSE "nil"

ValidatePackageName(packageName) ==
    IF packageName = <<>> THEN "EmptyName"
    ELSE LET parts == Split(packageName, "/")
         IN  IF Len(parts) # 2 THEN "MalformedName"
             ELSE IF ~MatchString(validNameRegex, parts[1])
                  THEN "InvalidVendorSegment"
             ELSE IF ~MatchString(validNameRegex, parts[2])
                  THEN "InvalidProjectSegment"
             ELSE "nil"

(***************************************************************************)
(* package validation.                                                     *)
(***************************************************************************)
Upper == {"A","B","C","D","E","F","G","H","I","J","K","L","M",
          "N","O","P","Q","R","S","T","U","V","W","X","Y","Z"}

\* a pattern matching exactly the characters of cs, in order
Lit(cs) == Cat([k \in 1..Len(cs) |-> Cls({cs[k]})])

\* a character outside ASCII is a token; it takes three bytes in UTF-8
UTF8Len(c) == IF c = "U+4E2D" THEN 3 ELSE 1

\* len(s) of a Go string: its length in bytes
RECURSIVE ByteLen(_)
ByteLen(s) == IF s = <<>> THEN 0 ELSE UTF8Len(Head(s)) + ByteLen(Tail(s))

MinDescriptionLen == 10

validStabilities == {"dev", "alpha", "beta", "RC", "stable"}

ValidateComposerJSON(name, description, stability) ==
    LET nameErr == IF name # <<>> THEN ValidatePackageName(name) ELSE "nil"
    IN  IF nameErr # "nil" THEN nameErr
        ELSE IF description # <<>> /\ ByteLen(description) < MinDescriptionLen
             THEN "DescriptionTooShort"
        ELSE IF stability # "" /\ stability \notin validStabilities
             THEN "InvalidStability"
        ELSE "nil"

\* `^dev-`
devRegex == Cat(<<Bol, Lit(<<"d", "e", "v", "-">>)>>)

NumTail == Opt(Cat(<<Cls({"."}), Plus(Cls(Digit))>>))

IdentChars == Digit \cup Upper \cup Lower \cup {"-"}

Suffix(c) ==
    Opt(Cat(<<Cls({c}), Plus(Cls(IdentChars)),
              Star(Cat(<<Cls({"."}), Plus(Cls(IdentChars))>>))>>))

versionRegex_NoBuild ==
    Cat(<<Bol,
          Opt(Alt(<<Lit(<<"^">>), Lit(<<"~">>), Lit(<<">", "=">>), Lit(<<"<", "=">>),
                    Lit(<<">">>), Lit(<<"<">>), Lit(<<"!", "=">>), Lit(<<"=", "=">>)>>)),
          Plus(Cls(Digit)), NumTail, NumTail, Suffix("-"), Eol>>)

\* `^(\^|~|>=|<=|>|<|!=|==)?[0-9]+(\.[0-9]+)?(\.[0-9]+)?
\*   (\-[0-9A-Za-z-]+(\.[0-9A-Za-z-]+)*)?(\+[0-9A-Za-z-]+(\.[0-9A-Za-z-]+)*)?$`
versionRegex ==
    Cat(<<Bol,
          Opt(Alt(<<Lit(<<"^">>), Lit(<<"~">>), Lit(<<">", "=">>), Lit(<<"<", "=">>),
                    Lit(<<">">>), Lit(<<"<">>), Lit(<<"!", "=">>), Lit(<<"=", "=">>)>>)),
          Plus(Cls(Digit)), NumTail, NumTail, Suffix("-"), Suffix("+"), Eol>>)

\* \s of RE2: [\t\n\f\r ]
Space == {" ", "\t", "\n", "\f", "\r"}

rangeRegex_NoGap ==
    Cat(<<Bol,
          Cat(<<Opt(Cls({">", "<", "=", "!"})), Plus(Cls(Digit)), NumTail, NumTail>>),
          Cat(<<Star(Cls(Space)), Opt(Cls({">", "<", "=", "!"})), Plus(Cls(Digit)),
                NumTail, NumTail>>),
          Eol>>)

\* `^([><=!]?[0-9]+(\.[0-9]+)?(\.[0-9]+)?)(\s+[><=!]?[0-9]+(\.[0-9]+)?(\.[0-9]+)?)$`
rangeRegex ==
    Cat(<<Bol,
          Cat(<<Opt(Cls({">", "<", "=", "!"})), Plus(Cls(Digit)), NumTail, NumTail>>),
          Cat(<<Plus(Cls(Space)), Opt(Cls({">", "<", "=", "!"})), Plus(Cls(Digit)),
                NumTail, NumTail>>),
          Eol>>)

ValidateVersion(version) ==
    IF version = <<>> THEN "nil"
    ELSE IF version = <<"*">> THEN "nil"
    ELSE IF MatchString(devRegex, version) THEN "nil"
    ELSE IF MatchString(versionRegex, version) THEN "nil"
    ELSE IF MatchString(rangeRegex, version) THEN "nil"
    ELSE "InvalidVersionFormat"

(***************************************************************************)
(* Go maps.  A map value is a function from its keys; the nil map has the  *)
(* address 0 and reads as the empty map.                                   *)
(***************************************************************************)
EmptyMap == <<>>

\* m[k] = v
Put(m, k, v) == [x \in (DOMAIN m) \cup {k} |-> IF x = k THEN v ELSE m[x]]

\* delete(m, k)
Delete(m, k) == [x \in (DOMAIN m) \ {k} |-> m[x]]

\* the content read through a map reference
MapAt(h, a) == IF a = 0 THEN EmptyMap ELSE h[a]

\* make(map...): the address of a newly allocated map
Fresh(h) ==
    CHOOSE a \in 1..(Cardinality(DOMAIN h) + 1) :
        a \notin DOMAIN h /\ \A b \in 1..(a - 1) : b \in DOMAIN h

\* maps no reference leads to any more are reclaimed
Collect(h, roots) == [a \in (DOMAIN h) \cap roots |-> h[a]]

(***************************************************************************)
(* package dependency: the dependency map operations.  An operation that   *)
(* writes gives the error it returns, the heap it leaves and whether it    *)
(* panicked (an assignment to an entry of a nil map).                      *)
(***************************************************************************)
DependencyExists(h, require, packageName) ==
    IF require = 0 THEN FALSE
    ELSE packageName \in DOMAIN h[require]

AddDependency_WriteFirst(h, require, packageName, version) ==
    IF require = 0
    THEN [err |-> "nil", heap |-> h, panic |-> TRUE]
    ELSE [err |-> ValidatePackageName(packageName),
          heap |-> [h EXCEPT ![require] = Put(@, packageName, version)],
          panic |-> FALSE]

AddDependency_CheckVersion(h, require, packageName, version) ==
    IF ValidatePackageName(packageName) # "nil"
    THEN [err |-> ValidatePackageName(packageName), heap |-> h, panic |-> FALSE]
    ELSE IF ValidateVersion(version) # "nil"
    THEN [err |-> ValidateVersion(version), heap |-> h, panic |-> FALSE]
    ELSE IF require = 0
    THEN [err |-> "nil", heap |-> h, panic |-> TRUE]
    ELSE [err |-> "nil",
          heap |-> [h EXCEPT ![require] = Put(@, packageName, version)],
          panic |-> FALSE]

AddDependency(h, require, packageName, version) ==
    IF ValidatePackageName(packageName) # "nil"
    THEN [err |-> ValidatePackageName(packageName), heap |-> h, panic |-> FALSE]
    ELSE IF require = 0
    THEN [err |-> "nil", heap |-> h, panic |-> TRUE]
    ELSE [err |-> "nil",
          heap |-> [h EXCEPT ![require] = Put(@, packageName, version)],
          panic |-> FALSE]

RemoveDependency_NoDelete(h, require, packageName) ==
    IF require = 0 THEN [ok |-> FALSE, heap |-> h]
    ELSE IF packageName \notin DOMAIN h[require] THEN [ok |-> FALSE, heap |-> h]
    ELSE [ok |-> TRUE, heap |-> h]

RemoveDependency(h, require, packageName) ==
    IF require = 0 THEN [ok |-> FALSE, heap |-> h]
    ELSE IF packageName \notin DOMAIN h[require] THEN [ok |-> FALSE, heap |-> h]
    ELSE [ok |-> TRUE, heap |-> [h EXCEPT ![require] = Delete(@, packageName)]]

\* the content of the map MergeDependencies builds
MergedContent_BaseWins(h, require, requireDev) ==
    LET a == MapAt(h, require)
        b == MapAt(h, requireDev)
    IN  [k \in (DOMAIN a) \cup (DOMAIN b) |-> IF k \in DOMAIN a THEN a[k] ELSE b[k]]

MergedContent(h, require, requireDev) ==
    LET afterRequire == [k \in DOMAIN MapAt(h, require) |-> MapAt(h, require)[k]]
        b == MapAt(h, requireDev)
    IN  [k \in (DOMAIN afterRequire) \cup (DOMAIN b) |->
            IF k \in DOMAIN b THEN b[k] ELSE afterRequire[k]]

\* MergeDependencies gives the reference it returns and the heap it leaves
MergeDependencies_Alias(h, require, requireDev) ==
    IF require = 0
    THEN [ref |-> Fresh(h),
          heap |-> [a \in (DOMAIN h) \cup {Fresh(h)} |->
                       IF a = Fresh(h) THEN MergedContent(h, require, requireDev)
                       ELSE h[a]]]
    ELSE [ref |-> require,
          heap |-> [h EXCEPT ![require] = MergedContent(h, require, requireDev)]]

MergeDependencies(h, require, requireDev) ==
    [ref |-> Fresh(h),
     heap |-> [a \in (DOMAIN h) \cup {Fresh(h)} |->
                  IF a = Fresh(h) THEN MergedContent(h, require, requireDev)
                  ELSE h[a]]]

(***************************************************************************)
(* Values shared by the specifications.                                    *)
(***************************************************************************)
NoCall == [op |-> "none", recv |-> "", arg1 |-> <<>>, arg2 |-> <<>>]

NoRet == [err |-> "nil", ok |-> FALSE, val |-> <<>>, isNil |-> TRUE]

\* the PSR4 field (interface{}): nil, a map[string]interface{} or another value
NilSlot == [tag |-> "nil", ref |-> 0, v |-> ""]

MapSlot(a) == [tag |-> "map", ref |-> a, v |-> ""]

OtherSlot(v) == [tag |-> "other", ref |-> 0, v |-> v]

\* a []string: the nil slice, or a slice holding elems
NilSlice == [isNil |-> TRUE, elems |-> <<>>]

Slice(elems) == [isNil |-> FALSE, elems |-> elems]

\* the zero Config, with the options the model keeps: an int, a bool and a
\* string option, and the two pairs of fields that carry one tag each
\* (CacheFilesPerm and CacheFilesMaxsize, UseSslVerify and UseGithubApi)
NoConfig == [ProcessTimeout |-> <<"0">>, SecureHttp |-> FALSE, VendorDir |-> <<>>,
             CacheFilesPerm |-> <<>>, CacheFilesMaxsize |-> <<>>,
             UseSslVerify |-> FALSE, UseGithubApi |-> FALSE]

\* the nil Extra map; a map that is not nil is kept as the JSON object it holds
NoExtra == [k |-> "absent", s |-> <<>>, m |-> <<>>]

\* the zero ComposerJSON; origin tells which constructor built the document;
\* exclude is Archive.Exclude
NoDoc == [name |-> <<>>, description |-> <<>>, type |-> "", license |-> "",
          require |-> 0, requireDev |-> 0, psr4 |-> NilSlot,
          exclude |-> NilSlice, config |-> NoConfig, extra |-> NoExtra,
          origin |-> "none"]

Roots(d, res) == {d.require, d.requireDev, d.psr4.ref, res}

(***************************************************************************)
(* package composer: creating a document.                                  *)
(***************************************************************************)
LowerSeq == <<"a","b","c","d","e","f","g","h","i","j","k","l","m",
              "n","o","p","q","r","s","t","u","v","w","x","y","z">>

UpperSeq == <<"A","B","C","D","E","F","G","H","I","J","K","L","M",
              "N","O","P","Q","R","S","T","U","V","W","X","Y","Z">>

ucfirst(s) ==
    IF s = <<>> THEN <<>>
    ELSE IF s[1] \in Lower
         THEN <<UpperSeq[CHOOSE k \in 1..26 : LowerSeq[k] = s[1]]>> \o Tail(s)
         ELSE s

toNamespace_Plain(vendor, project) == ucfirst(vendor) \o <<"\\">> \o project

toNamespace(vendor, project) == ucfirst(vendor) \o <<"\\">> \o ucfirst(project)

\* GetPackageNameParts; CreateNew ignores its error
GetPackageNameParts(packageName) ==
    LET parts == Split(packageName, "/")
    IN  IF Len(parts) # 2 THEN [vendor |-> <<>>, project |-> <<>>, err |-> "MalformedName"]
        ELSE [vendor |-> parts[1], project |-> parts[2], err |-> "nil"]

\* a value stored in a map[string]interface{}
StrVal(s) == [isStr |-> TRUE, s |-> s]

NonStrVal == [isStr |-> FALSE, s |-> <<>>]

SrcDir == <<"s", "r", "c", "/">>

\* CreateNew gives the error, the document (NoDoc for nil) and the heap
CreateNew_DescriptionFirst(h, name, description) ==
    LET nameErr == IF name # <<>> THEN ValidatePackageName(name) ELSE "nil"
        docErr  == ValidateComposerJSON(name, description, "")
        parts   == GetPackageNameParts(name)
        psr4Map == IF name # <<>>
                   THEN Put(EmptyMap,
                            toNamespace(parts.vendor, parts.project) \o <<"\\">>,
                            StrVal(SrcDir))
                   ELSE EmptyMap
        pa == Fresh(h)
        h1 == [a \in (DOMAIN h) \cup {pa} |-> IF a = pa THEN psr4Map ELSE h[a]]
        ra == Fresh(h1)
        h2 == [a \in (DOMAIN h1) \cup {ra} |-> IF a = ra THEN EmptyMap ELSE h1[a]]
        da == Fresh(h2)
        h3 == [a \in (DOMAIN h2) \cup {da} |-> IF a = da THEN EmptyMap ELSE h2[a]]
    IN  IF description # <<>> /\ ByteLen(description) < MinDescriptionLen
        THEN [err |-> "DescriptionTooShort", doc |-> NoDoc, heap |-> h]
        ELSE IF nameErr # "nil" THEN [err |-> nameErr, doc |-> NoDoc, heap |-> h]
        ELSE IF docErr # "nil" THEN [err |-> docErr, doc |-> NoDoc, heap |-> h]
        ELSE [err |-> "nil",
              doc |-> [name |-> name, description |-> description,
                       type |-> "library", license |-> "MIT",
                       require |-> ra, requireDev |-> da, psr4 |-> MapSlot(pa),
                       exclude |-> NilSlice, config |-> NoConfig,
                       extra |-> NoExtra, origin |-> "CreateNew"],
              heap |-> h3]

CreateNew_SkipEmpty(h, name, description) ==
    LET nameErr == IF name # <<>> THEN ValidatePackageName(name) ELSE "nil"
        docErr  == ValidateComposerJSON(name, description, "")
        parts   == GetPackageNameParts(name)
        psr4Map == IF name # <<>>
                   THEN Put(EmptyMap,
                            toNamespace(parts.vendor, parts.project) \o <<"\\">>,
                            StrVal(SrcDir))
                   ELSE EmptyMap
        pa == Fresh(h)
        h1 == [a \in (DOMAIN h) \cup {pa} |-> IF a = pa THEN psr4Map ELSE h[a]]
        ra == Fresh(h1)
        h2 == [a \in (DOMAIN h1) \cup {ra} |-> IF a = ra THEN EmptyMap ELSE h1[a]]
        da == Fresh(h2)
        h3 == [a \in (DOMAIN h2) \cup {da} |-> IF a = da THEN EmptyMap ELSE h2[a]]
    IN  IF nameErr # "nil" THEN [err |-> nameErr, doc |-> NoDoc, heap |-> h]
        ELSE IF name # <<>> /\ docErr # "nil"
             THEN [err |-> docErr, doc |-> NoDoc, heap |-> h]
        ELSE [err |-> "nil",
              doc |-> [name |-> name, description |-> description,
                       type |-> "library", license |-> "MIT",
                       require |-> ra, requireDev |-> da, psr4 |-> MapSlot(pa),
                       exclude |-> NilSlice, config |-> NoConfig,
                       extra |-> NoExtra, origin |-> "CreateNew"],
              heap |-> h3]

CreateNew(h, name, description) ==
    LET nameErr == IF name # <<>> THEN ValidatePackageName(name) ELSE "nil"
        docErr  == ValidateComposerJSON(name, description, "")
        parts   == GetPackageNameParts(name)
        psr4Map == IF name # <<>>
                   THEN Put(EmptyMap,
                            toNamespace(parts.vendor, parts.project) \o <<"\\">>,
                            StrVal(SrcDir))
                   ELSE EmptyMap
        pa == Fresh(h)
        h1 == [a \in (DOMAIN h) \cup {pa} |-> IF a = pa THEN psr4Map ELSE h[a]]
        ra == Fresh(h1)
        h2 == [a \in (DOMAIN h1) \cup {ra} |-> IF a = ra THEN EmptyMap ELSE h1[a]]
        da == Fresh(h2)
        h3 == [a \in (DOMAIN h2) \cup {da} |-> IF a = da THEN EmptyMap ELSE h2[a]]
    IN  IF nameErr # "nil" THEN [err |-> nameErr, doc |-> NoDoc, heap |-> h]
        ELSE IF docErr # "nil" THEN [err |-> docErr, doc |-> NoDoc, heap |-> h]
        ELSE [err |-> "nil",
              doc |-> [name |-> name, description |-> description,
                       type |-> "library", license |-> "MIT",
                       require |-> ra, requireDev |-> da, psr4 |-> MapSlot(pa),
                       exclude |-> NilSlice, config |-> NoConfig,
                       extra |-> NoExtra, origin |-> "CreateNew"],
              heap |-> h3]

DefaultPhp == <<"^", "7", ".", "4">>

PhpUnit == <<"p", "h", "p", "u", "n", "i", "t", "/", "p", "h", "p", "u", "n", "i", "t">>

Caret9 == <<"^", "9", ".", "0">>

CreateProject_NoDefault(h, name, description, phpVersion) ==
    LET r == CreateNew(h, name, description)
    IN  IF r.err # "nil" THEN [err |-> r.err, doc |-> NoDoc, heap |-> r.heap]
        ELSE [err |-> "nil",
              doc |-> [r.doc EXCEPT !.type = "project"],
              heap |-> [r.heap EXCEPT
                           ![r.doc.require] = Put(@, <<"p", "h", "p">>, phpVersion),
                           ![r.doc.requireDev] = Put(@, PhpUnit, Caret9)]]

CreateProject(h, name, description, phpVersion) ==
    LET r == CreateNew(h, name, description)
        php == IF phpVersion # <<>> THEN phpVersion ELSE DefaultPhp
    IN  IF r.err # "nil" THEN [err |-> r.err, doc |-> NoDoc, heap |-> r.heap]
        ELSE [err |-> "nil",
              doc |-> [r.doc EXCEPT !.type = "project"],
              heap |-> [r.heap EXCEPT
                           ![r.doc.require] = Put(@, <<"p", "h", "p">>, php),
                           ![r.doc.requireDev] = Put(@, PhpUnit, Caret9)]]

CreateLibrary(h, name, description, phpVersion) ==
    LET r == CreateNew(h, name, description)
        php == IF phpVersion # <<>> THEN phpVersion ELSE DefaultPhp
    IN  IF r.err # "nil" THEN [err |-> r.err, doc |-> NoDoc, heap |-> r.heap]
        ELSE [err |-> "nil",
              doc |-> [r.doc EXCEPT !.type = "library"],
              heap |-> [r.heap EXCEPT
                           ![r.doc.require] = Put(@, <<"p", "h", "p">>, php)]]

(***************************************************************************)
(* Ingestion.  A payload is already split into the JSON values of the      *)
(* fields the model keeps: "require", "require-dev" and "autoload.psr-4".  *)
(***************************************************************************)
Absent  == [k |-> "absent", s |-> <<>>, m |-> <<>>]
JNull   == [k |-> "null",   s |-> <<>>, m |-> <<>>]
JStr(s) == [k |-> "str",    s |-> s,    m |-> <<>>]
JNum    == [k |-> "num",    s |-> <<>>, m |-> <<>>]
JArr    == [k |-> "arr",    s |-> <<>>, m |-> <<>>]
JObj(m) == [k |-> "obj",    s |-> <<>>, m |-> m]

(***************************************************************************)
(* encoding/json over texts.  A text is a sequence of characters; the      *)
(* scanner covers the literals, integers and fractions, strings with the   *)
(* escapes \\ \" \/, arrays and objects.  An object is a function from its *)
(* keys (a repeated key keeps its last value), an array a sequence.        *)
(***************************************************************************)
JBool(b) == [k |-> "bool", s |-> IF b THEN <<"t">> ELSE <<"f">>, m |-> <<>>]
JNumber(digits) == [k |-> "num", s |-> digits, m |-> <<>>]
JArray(elems) == [k |-> "arr", s |-> <<>>, m |-> elems]

JsonSpace == {" ", "\t", "\n", "\r"}

ScanFail == [ok |-> FALSE, next |-> 0, v |-> JNull]

Scanned(next, v) == [ok |-> TRUE, next |-> next, v |-> v]

RECURSIVE SkipSpace(_, _)
SkipSpace(s, i) ==
    IF i <= Len(s) /\ s[i] \in JsonSpace THEN SkipSpace(s, i + 1) ELSE i

\* the literal lit stands at position i of s
LiteralAt(s, i, lit) ==
    i + Len(lit) - 1 <= Len(s) /\ SubSeq(s, i, i + Len(lit) - 1) = lit

RECURSIVE DigitsEnd(_, _)
DigitsEnd(s, i) ==
    IF i <= Len(s) /\ s[i] \in Digit THEN DigitsEnd(s, i + 1) ELSE i

\* -?(0|[1-9][0-9]*)(\.[0-9]+)?
ScanNumber(s, i) ==
    LET a == IF s[i] = "-" THEN i + 1 ELSE i
        b == IF a > Len(s) \/ s[a] \notin Digit THEN 0
             ELSE IF s[a] = "0" THEN a + 1 ELSE DigitsEnd(s, a)
        c == IF b # 0 /\ b <= Len(s) /\ s[b] = "."
             THEN IF DigitsEnd(s, b + 1) = b + 1 THEN 0 ELSE DigitsEnd(s, b + 1)
             ELSE b
    IN  IF c = 0 THEN ScanFail ELSE Scanned(c, JNumber(SubSeq(s, i, c - 1)))

\* the characters after the opening quote, up to the closing one
RECURSIVE ScanChars(_, _, _)
ScanChars(s, j, acc) ==
    IF j > Len(s) THEN ScanFail
    ELSE IF s[j] = "\"" THEN Scanned(j + 1, JStr(acc))
    ELSE IF s[j] = "\\"
         THEN IF j + 1 <= Len(s) /\ s[j + 1] \in {"\\", "\"", "/"}
              THEN ScanChars(s, j + 2, Append(acc, s[j + 1]))
              ELSE ScanFail
    ELSE IF s[j] \in {"\t", "\n", "\r", "\f"} THEN ScanFail
    ELSE ScanChars(s, j + 1, Append(acc, s[j]))

RECURSIVE ScanValue(_, _)
RECURSIVE ScanMembers(_, _, _)
RECURSIVE ScanElements(_, _, _)

\* the value that starts at the first character after the space at i
ScanValue(s, i) ==
    LET j == SkipSpace(s, i)
    IN  IF j > Len(s) THEN ScanFail
        ELSE IF s[j] = "{"
             THEN IF SkipSpace(s, j + 1) <= Len(s) /\ s[SkipSpace(s, j + 1)] = "}"
                  THEN Scanned(SkipSpace(s, j + 1) + 1, JObj(EmptyMap))
                  ELSE ScanMembers(s, SkipSpace(s, j + 1), EmptyMap)
        ELSE IF s[j] = "["
             THEN IF SkipSpace(s, j + 1) <= Len(s) /\ s[SkipSpace(s, j + 1)] = "]"
                  THEN Scanned(SkipSpace(s, j + 1) + 1, JArray(<<>>))
                  ELSE ScanElements(s, j + 1, <<>>)
        ELSE IF s[j] = "\"" THEN ScanChars(s, j + 1, <<>>)
        ELSE IF s[j] \in Digit \cup {"-"} THEN ScanNumber(s, j)
        ELSE IF LiteralAt(s, j, <<"n", "u", "l", "l">>) THEN Scanned(j + 4, JNull)
        ELSE IF LiteralAt(s, j, <<"t", "r", "u", "e">>) THEN Scanned(j + 4, JBool(TRUE))
        ELSE IF LiteralAt(s, j, <<"f", "a", "l", "s", "e">>) THEN Scanned(j + 5, JBool(FALSE))
        ELSE ScanFail

\* the members of an object from the key at i on; m holds the earlier ones
ScanMembers(s, i, m) ==
    IF i > Len(s) \/ s[i] # "\"" THEN ScanFail
    ELSE LET key == ScanChars(s, i + 1, <<>>)
             c == IF key.ok THEN SkipSpace(s, key.next) ELSE 0
             val == IF key.ok /\ c <= Len(s) /\ s[c] = ":"
                    THEN ScanValue(s, c + 1) ELSE ScanFail
             e == IF val.ok THEN SkipSpace(s, val.next) ELSE 0
         IN  IF ~val.ok \/ e > Len(s) THEN ScanFail
             ELSE IF s[e] = "}" THEN Scanned(e + 1, JObj(Put(m, key.v.s, val.v)))
             ELSE IF s[e] = ","
                  THEN ScanMembers(s, SkipSpace(s, e + 1), Put(m, key.v.s, val.v))
             ELSE ScanFail

\* the elements of an array from position i on; elems holds the earlier ones
ScanElements(s, i, elems) ==
    LET val == ScanValue(s, i)
        e == IF val.ok THEN SkipSpace(s, val.next) ELSE 0
    IN  IF ~val.ok \/ e > Len(s) THEN ScanFail
        ELSE IF s[e] = "]" THEN Scanned(e + 1, JArray(Append(elems, val.v)))
        ELSE IF s[e] = "," THEN ScanElements(s, e + 1, Append(elems, val.v))
        ELSE ScanFail

\* the one value of a text, ScanFail when the text is not one JSON value
Decode(s) ==
    LET r == ScanValue(s, 1)
    IN  IF r.ok /\ SkipSpace(s, r.next) > Len(s) THEN r ELSE ScanFail

\* json.Valid
Valid(s) == Decode(s).ok

(***************************************************************************)
(* package parser.  A result has the error kind, the map and whether the   *)
(* map is nil.                                                             *)
(***************************************************************************)
ParserResult(err, m, isNil) == [err |-> err, val |-> m, isNil |-> isNil]

ParseString_NullRefused(jsonStr) ==
    IF ~Valid(jsonStr) THEN ParserResult("ErrInvalidJSON", EmptyMap, TRUE)
    ELSE LET v == Decode(jsonStr).v
         IN  IF v.k = "obj" THEN ParserResult("nil", v.m, FALSE)
             ELSE ParserResult("ErrUnmarshallingJSON", EmptyMap, TRUE)

\* parser.ParseString
ParseString(jsonStr) ==
    IF ~Valid(jsonStr) THEN ParserResult("ErrInvalidJSON", EmptyMap, TRUE)
    ELSE LET v == Decode(jsonStr).v
         IN  IF v.k = "null" THEN ParserResult("nil", EmptyMap, TRUE)
             ELSE IF v.k = "obj" THEN ParserResult("nil", v.m, FALSE)
             ELSE ParserResult("ErrUnmarshallingJSON", EmptyMap, TRUE)

\* parser.Parse; readOK tells whether io.ReadAll delivered the bytes
Parse(readOK, data) ==
    IF ~readOK THEN ParserResult("ErrReadingFile", EmptyMap, TRUE)
    ELSE IF ~Valid(data) THEN ParserResult("ErrInvalidJSON", EmptyMap, TRUE)
    ELSE LET v == Decode(data).v
         IN  IF v.k = "null" THEN ParserResult("nil", EmptyMap, TRUE)
             ELSE IF v.k = "obj" THEN ParserResult("nil", v.m, FALSE)
             ELSE ParserResult("ErrUnmarshallingJSON", EmptyMap, TRUE)

\* parser.ParseFile; file tells what os.Stat, os.Open and the read find
ParseFile(file, data) ==
    IF file = "missing" THEN ParserResult("ErrFileNotFound", EmptyMap, TRUE)
    ELSE IF file = "unopenable" THEN ParserResult("ErrReadingFile", EmptyMap, TRUE)
    ELSE Parse(file = "ok", data)

NameKey == <<"n", "a", "m", "e">>
RequireKey == <<"r", "e", "q", "u", "i", "r", "e">>
RequireDevKey == <<"r", "e", "q", "u", "i", "r", "e", "-", "d", "e", "v">>
AutoloadKey == <<"a", "u", "t", "o", "l", "o", "a", "d">>
Psr4Key == <<"p", "s", "r", "-", "4">>
ConfigKey == <<"c", "o", "n", "f", "i", "g">>
ExtraKey == <<"e", "x", "t", "r", "a">>

\* the member key of the object m, Absent when it has none
Field(m, key) == IF key \in DOMAIN m THEN m[key] ELSE Absent

NullPayload ==
    [top |-> "null", name |-> Absent, require |-> Absent, requireDev |-> Absent,
     autoload |-> Absent, config |-> Absent, extra |-> Absent]

ObjPayload(r, d, p) ==
    [top |-> "obj", name |-> Absent, require |-> r, requireDev |-> d,
     autoload |-> IF p.k = "absent" THEN Absent ELSE JObj(Put(EmptyMap, Psr4Key, p)),
     config |-> Absent, extra |-> Absent]

\* json.Marshal(data) of convertToComposerJSON: the members the model keeps
PayloadOf(raw) ==
    IF raw.isNil THEN NullPayload
    ELSE [top |-> "obj", name |-> Field(raw.val, NameKey),
          require |-> Field(raw.val, RequireKey),
          requireDev |-> Field(raw.val, RequireDevKey),
          autoload |-> Field(raw.val, AutoloadKey),
          config |-> Field(raw.val, ConfigKey),
          extra |-> Field(raw.val, ExtraKey)]

\* json.Unmarshal into a map[string]string field
DecodeStringMap(h, j) ==
    IF j.k \in {"absent", "null"} THEN [err |-> "nil", ref |-> 0, heap |-> h]
    ELSE IF j.k = "obj" /\ \A x \in DOMAIN j.m : j.m[x].k \in {"str", "null"}
    THEN [err |-> "nil", ref |-> Fresh(h),
          heap |-> [a \in (DOMAIN h) \cup {Fresh(h)} |->
                       IF a = Fresh(h) THEN [x \in DOMAIN j.m |-> j.m[x].s] ELSE h[a]]]
    ELSE [err |-> "ConvertError", ref |-> 0, heap |-> h]

\* json.Unmarshal into an interface{} field
DecodeAny(h, j) ==
    IF j.k \in {"absent", "null"} THEN [slot |-> NilSlot, heap |-> h]
    ELSE IF j.k = "obj"
    THEN [slot |-> MapSlot(Fresh(h)),
          heap |-> [a \in (DOMAIN h) \cup {Fresh(h)} |->
                       IF a = Fresh(h)
                       THEN [x \in DOMAIN j.m |->
                                IF j.m[x].k = "str" THEN StrVal(j.m[x].s) ELSE NonStrVal]
                       ELSE h[a]]]
    ELSE [slot |-> OtherSlot(j.k), heap |-> h]

\* the tags of the Config options the model keeps
ProcessTimeoutKey == <<"p", "r", "o", "c", "e", "s", "s", "-", "t", "i", "m", "e", "o", "u", "t">>
SecureHttpKey == <<"s", "e", "c", "u", "r", "e", "-", "h", "t", "t", "p">>
VendorDirKey == <<"v", "e", "n", "d", "o", "r", "-", "d", "i", "r">>
CacheFilesMaxsizeKey == <<"c", "a", "c", "h", "e", "-", "f", "i", "l", "e", "s", "-", "m", "a", "x", "s", "i", "z", "e">>
UseGithubApiKey == <<"u", "s", "e", "-", "g", "i", "t", "h", "u", "b", "-", "a", "p", "i">>

\* the Config fields encoding/json reads and writes: two fields of one struct
\* that carry the same tag hide each other, so "cache-files-maxsize" and
\* "use-github-api" name no field
ConfigFields == {ProcessTimeoutKey, SecureHttpKey, VendorDirKey}

\* json.Unmarshal of a number into an int field
DecodeInt(digits) ==
    IF digits \in {<<"0">>, <<"-", "0">>} THEN <<"0">> ELSE digits

\* json.Unmarshal into the Config field
DecodeConfig(j) ==
    IF j.k \in {"absent", "null"} THEN [err |-> "nil", config |-> NoConfig]
    ELSE IF j.k # "obj" THEN [err |-> "ConvertError", config |-> NoConfig]
    ELSE LET t == Field(j.m, ProcessTimeoutKey)
             b == Field(j.m, SecureHttpKey)
             v == Field(j.m, VendorDirKey)
         IN  IF \/ t.k \notin {"absent", "null", "num"}
                \/ (t.k = "num" /\ \E i \in 1..Len(t.s) : t.s[i] = ".")
                \/ b.k \notin {"absent", "null", "bool"}
                \/ v.k \notin {"absent", "null", "str"}
             THEN [err |-> "ConvertError", config |-> NoConfig]
             ELSE [err |-> "nil",
                   config |-> [NoConfig EXCEPT
                       !.ProcessTimeout = IF t.k = "num" THEN DecodeInt(t.s) ELSE @,
                       !.SecureHttp = IF b.k = "bool" THEN b.s = <<"t">> ELSE @,
                       !.VendorDir = IF v.k = "str" THEN v.s ELSE @]]

\* convertToComposerJSON over the tree parser.ParseString returned
convertToComposerJSON(h, payload) ==
    LET r == DecodeStringMap(h, payload.require)
        d == DecodeStringMap(r.heap, payload.requireDev)
        a == payload.autoload
        p == DecodeAny(d.heap, IF a.k = "obj" THEN Field(a.m, Psr4Key) ELSE Absent)
        c == DecodeConfig(payload.config)
        e == payload.extra
    IN  IF payload.name.k \notin {"absent", "null", "str"}
        THEN [err |-> "ConvertError", doc |-> NoDoc, heap |-> h]
        ELSE IF c.err # "nil" THEN [err |-> c.err, doc |-> NoDoc, heap |-> h]
        ELSE IF e.k \notin {"absent", "null", "obj"}
        THEN [err |-> "ConvertError", doc |-> NoDoc, heap |-> h]
        ELSE IF r.err # "nil" THEN [err |-> r.err, doc |-> NoDoc, heap |-> h]
        ELSE IF d.err # "nil" THEN [err |-> d.err, doc |-> NoDoc, heap |-> h]
        ELSE IF a.k \notin {"absent", "null", "obj"}
        THEN [err |-> "ConvertError", doc |-> NoDoc, heap |-> h]
        ELSE [err |-> "nil",
              doc |-> [NoDoc EXCEPT !.name = payload.name.s,
                                    !.require = r.ref, !.requireDev = d.ref,
                                    !.psr4 = p.slot, !.config = c.config,
                                    !.extra = IF e.k = "obj" THEN e ELSE NoExtra,
                                    !.origin = "ParseString"],
              heap |-> p.heap]

\* the tail of composer.ParseFile, Parse and ParseString: the parser's error
\* as it is, or the converted document
FromRaw(h, raw) ==
    IF raw.err # "nil" THEN [err |-> raw.err, doc |-> NoDoc, heap |-> h]
    ELSE convertToComposerJSON(h, PayloadOf(raw))

(***************************************************************************)
(* json.Marshal and ToJSON.  "0xFF" is a byte that is no valid UTF-8; the  *)
(* encoder writes the replacement character U+FFFD for it.  The members of *)
(* an object are written in one fixed order.                               *)
(***************************************************************************)
RECURSIVE EscapeChars(_)
EscapeChars(s) ==
    IF s = <<>> THEN <<>>
    ELSE (IF Head(s) = "\"" THEN <<"\\", "\"">>
          ELSE IF Head(s) = "\\" THEN <<"\\", "\\">>
          ELSE IF Head(s) = "0xFF" THEN <<"U+FFFD">>
          ELSE <<Head(s)>>) \o EscapeChars(Tail(s))

RECURSIVE Spaces(_)
Spaces(n) == IF n = 0 THEN <<>> ELSE <<" ">> \o Spaces(n - 1)

\* json.MarshalIndent(data, "", "    "): a new line and the indentation
NewLine(indent, depth) == IF indent THEN <<"\n">> \o Spaces(4 * depth) ELSE <<>>

RECURSIVE EncodeValue(_, _, _)
RECURSIVE EncodeMembers(_, _, _, _)
RECURSIVE EncodeElements(_, _, _, _)

EncodeValue(v, indent, depth) ==
    CASE v.k = "null" -> <<"n", "u", "l", "l">>
      [] v.k = "bool" -> IF v.s = <<"t">> THEN <<"t", "r", "u", "e">>
                         ELSE <<"f", "a", "l", "s", "e">>
      [] v.k = "num"  -> v.s
      [] v.k = "str"  -> <<"\"">> \o EscapeChars(v.s) \o <<"\"">>
      [] v.k = "arr"  -> IF v.m = <<>> THEN <<"[", "]">>
                         ELSE <<"[">> \o EncodeElements(v.m, 1, indent, depth + 1)
                                  \o NewLine(indent, depth) \o <<"]">>
      [] v.k = "obj"  -> IF DOMAIN v.m = {} THEN <<"{", "}">>
                         ELSE <<"{">> \o EncodeMembers(v.m, DOMAIN v.m, indent, depth + 1)
                                  \o NewLine(indent, depth) \o <<"}">>

EncodeMembers(m, keys, indent, depth) ==
    LET key == CHOOSE x \in keys : TRUE
    IN  NewLine(indent, depth) \o <<"\"">> \o EscapeChars(key) \o <<"\"", ":">>
            \o (IF indent THEN <<" ">> ELSE <<>>)
            \o EncodeValue(m[key], indent, depth)
            \o (IF keys = {key} THEN <<>>
                ELSE <<",">> \o EncodeMembers(m, keys \ {key}, indent, depth))

EncodeElements(elems, i, indent, depth) ==
    NewLine(indent, depth) \o EncodeValue(elems[i], indent, depth)
        \o (IF i = Len(elems) THEN <<>>
            ELSE <<",">> \o EncodeElements(elems, i + 1, indent, depth))

AutoloadDevKey == <<"a", "u", "t", "o", "l", "o", "a", "d", "-", "d", "e", "v">>
SupportKey == <<"s", "u", "p", "p", "o", "r", "t">>
ArchiveKey == <<"a", "r", "c", "h", "i", "v", "e">>

ExcludeKey == <<"e", "x", "c", "l", "u", "d", "e">>

\* a Go value the PSR4 field holds, as json.Marshal writes it; of a value
\* that is no string the document keeps the kind only
SlotValue(h, slot) ==
    IF slot.tag = "map"
    THEN JObj([ns \in DOMAIN h[slot.ref] |->
                  IF h[slot.ref][ns].isStr THEN JStr(h[slot.ref][ns].s)
                  ELSE JNumber(<<"1">>)])
    ELSE CASE slot.v = "str"    -> JStr(<<"s", "r", "c", "/">>)
           [] slot.v = "num"    -> JNumber(<<"1">>)
           [] slot.v = "bool"   -> JBool(TRUE)
           [] slot.v = "arr"    -> JArray(<<JStr(<<"s", "r", "c", "/">>)>>)
           [] slot.v = "strmap" -> JObj(Put(EmptyMap, <<"A", "\\">>, JStr(<<"s", "r", "c", "/">>)))
           [] OTHER             -> JNull

\* the members json.Marshal writes for a Config: every field that has a tag
\* of its own and is not the zero value
ConfigTree(c) ==
    LET t0 == EmptyMap
        t1 == IF c.ProcessTimeout = <<"0">> THEN t0
              ELSE Put(t0, ProcessTimeoutKey, JNumber(c.ProcessTimeout))
        t2 == IF ~c.SecureHttp THEN t1 ELSE Put(t1, SecureHttpKey, JBool(TRUE))
    IN  IF c.VendorDir = <<>> THEN t2 ELSE Put(t2, VendorDirKey, JStr(c.VendorDir))

\* the members json.Marshal(c) writes: a string or a map that is empty is
\* left out, a nil PSR4 field is left out, a struct never is
StructTree_DropEmptyMap(h, d) ==
    LET deps(ref) == JObj([n \in DOMAIN MapAt(h, ref) |-> JStr(MapAt(h, ref)[n])])
        autoload == IF d.psr4.tag = "nil"
                          \/ (d.psr4.tag = "map" /\ DOMAIN h[d.psr4.ref] = {})
                    THEN EmptyMap
                    ELSE Put(EmptyMap, Psr4Key, SlotValue(h, d.psr4))
        archive == IF d.exclude.elems = <<>> THEN EmptyMap
                   ELSE Put(EmptyMap, ExcludeKey,
                            JArray([i \in DOMAIN d.exclude.elems |->
                                       JStr(d.exclude.elems[i])]))
        tb == [x \in {AutoloadKey, AutoloadDevKey, SupportKey, ConfigKey, ArchiveKey} |->
                  IF x = AutoloadKey THEN JObj(autoload)
                  ELSE IF x = ArchiveKey THEN JObj(archive)
                  ELSE IF x = ConfigKey THEN JObj(ConfigTree(d.config))
                  ELSE JObj(EmptyMap)]
        t0 == IF d.extra.k # "obj" \/ DOMAIN d.extra.m = {} THEN tb
              ELSE Put(tb, ExtraKey, d.extra)
        t1 == IF d.name = <<>> THEN t0 ELSE Put(t0, NameKey, JStr(d.name))
        t2 == IF DOMAIN MapAt(h, d.require) = {} THEN t1
              ELSE Put(t1, RequireKey, deps(d.require))
    IN  IF DOMAIN MapAt(h, d.requireDev) = {} THEN t2
        ELSE Put(t2, RequireDevKey, deps(d.requireDev))

StructTree(h, d) ==
    LET deps(ref) == JObj([n \in DOMAIN MapAt(h, ref) |-> JStr(MapAt(h, ref)[n])])
        autoload == IF d.psr4.tag = "nil" THEN EmptyMap
                    ELSE Put(EmptyMap, Psr4Key, SlotValue(h, d.psr4))
        archive == IF d.exclude.elems = <<>> THEN EmptyMap
                   ELSE Put(EmptyMap, ExcludeKey,
                            JArray([i \in DOMAIN d.exclude.elems |->
                                       JStr(d.exclude.elems[i])]))
        tb == [x \in {AutoloadKey, AutoloadDevKey, SupportKey, ConfigKey, ArchiveKey} |->
                  IF x = AutoloadKey THEN JObj(autoload)
                  ELSE IF x = ArchiveKey THEN JObj(archive)
                  ELSE IF x = ConfigKey THEN JObj(ConfigTree(d.config))
                  ELSE JObj(EmptyMap)]
        t0 == IF d.extra.k # "obj" \/ DOMAIN d.extra.m = {} THEN tb
              ELSE Put(tb, ExtraKey, d.extra)
        t1 == IF d.name = <<>> THEN t0 ELSE Put(t0, NameKey, JStr(d.name))
        t2 == IF DOMAIN MapAt(h, d.require) = {} THEN t1
              ELSE Put(t1, RequireKey, deps(d.require))
    IN  IF DOMAIN MapAt(h, d.requireDev) = {} THEN t2
        ELSE Put(t2, RequireDevKey, deps(d.requireDev))

\* ToJSON gives the error and the text
ToJSON(h, d, indent) ==
    IF d.psr4.tag = "other" /\ d.psr4.v = "func"
    THEN [err |-> "MarshalError", text |-> <<>>]
    ELSE LET jsonData == EncodeValue(JObj(StructTree(h, d)), FALSE, 0)
             rawData == Decode(jsonData).v
         IN  [err |-> "nil", text |-> EncodeValue(rawData, indent, 0)]

(***************************************************************************)
(* package archive: the exclude list of the Archive field.                 *)
(***************************************************************************)
\* NewArchive().Exclude: the commonly excluded paths
NewArchive ==
    Slice(<< <<"/", ".", "*">>,
             <<"/", "*", ".", "m", "d">>,
             <<"/", "c", "o", "m", "p", "o", "s", "e", "r", ".", "j", "s", "o", "n">>,
             <<"/", "c", "o", "m", "p", "o", "s", "e", "r", ".", "l", "o", "c", "k">>,
             <<"/", "v", "e", "n", "d", "o", "r">>,
             <<"/", "t", "e", "s", "t", "s">>,
             <<"/", "t", "e", "s", "t">>,
             <<"/", "d", "o", "c", "s">>,
             <<"/", "d", "o", "c">> >>)

\* the indexes i with a.Exclude[i] == pattern
IndexesOf(a, pattern) == {i \in 1..Len(a.elems) : a.elems[i] = pattern}

AddExclusion_Always(a, pattern) == Slice(Append(a.elems, pattern))

\* AddExclusion gives the new value of a.Exclude
AddExclusion(a, pattern) ==
    IF IndexesOf(a, pattern) # {} THEN a
    ELSE Slice(Append(a.elems, pattern))

RemoveExclusion_KeepList(a, pattern) ==
    IF IndexesOf(a, pattern) = {} THEN [ok |-> FALSE, exclude |-> a]
    ELSE [ok |-> TRUE, exclude |-> a]

\* RemoveExclusion gives the returned flag and the new value of a.Exclude:
\* the first element equal to the pattern is cut out
RemoveExclusion(a, pattern) ==
    IF IndexesOf(a, pattern) = {} THEN [ok |-> FALSE, exclude |-> a]
    ELSE LET i == CHOOSE x \in IndexesOf(a, pattern) :
                      \A y \in IndexesOf(a, pattern) : x <= y
         IN  [ok |-> TRUE,
              exclude |-> Slice(SubSeq(a.elems, 1, i - 1)
                                \o SubSeq(a.elems, i + 1, Len(a.elems)))]

(***************************************************************************)
(* package autoload: the PSR-4 operations over the PSR4 field.             *)
(***************************************************************************)
GetPSR4Map_KeepAll(h, slot) ==
    IF slot.tag # "map" THEN [val |-> EmptyMap, isNil |-> TRUE, ok |-> FALSE]
    ELSE [val |-> [ns \in DOMAIN h[slot.ref] |-> h[slot.ref][ns].s],
          isNil |-> FALSE, ok |-> TRUE]

GetPSR4Map(h, slot) ==
    IF slot.tag # "map" THEN [val |-> EmptyMap, isNil |-> TRUE, ok |-> FALSE]
    ELSE [val |-> [ns \in {x \in DOMAIN h[slot.ref] : h[slot.ref][x].isStr} |->
                      h[slot.ref][ns].s],
          isNil |-> FALSE, ok |-> TRUE]

\* SetPSR4 gives the PSR4 field and the heap it leaves
SetPSR4_KeepForeign(h, slot, namespace, path) ==
    IF slot.tag # "map"
    THEN [slot |-> slot,
          heap |-> [a \in (DOMAIN h) \cup {Fresh(h)} |->
                       IF a = Fresh(h) THEN Put(EmptyMap, namespace, StrVal(path))
                       ELSE h[a]]]
    ELSE [slot |-> slot,
          heap |-> [h EXCEPT ![slot.ref] = Put(@, namespace, StrVal(path))]]

SetPSR4_AlwaysNew(h, slot, namespace, path) ==
    [slot |-> MapSlot(Fresh(h)),
     heap |-> [a \in (DOMAIN h) \cup {Fresh(h)} |->
                  IF a = Fresh(h) THEN Put(EmptyMap, namespace, StrVal(path))
                  ELSE h[a]]]

SetPSR4(h, slot, namespace, path) ==
    IF slot.tag # "map"
    THEN [slot |-> MapSlot(Fresh(h)),
          heap |-> [a \in (DOMAIN h) \cup {Fresh(h)} |->
                       IF a = Fresh(h) THEN Put(EmptyMap, namespace, StrVal(path))
                       ELSE h[a]]]
    ELSE [slot |-> slot,
          heap |-> [h EXCEPT ![slot.ref] = Put(@, namespace, StrVal(path))]]

RemovePSR4_StringsOnly(h, slot, namespace) ==
    IF slot.tag # "map" THEN [ok |-> FALSE, heap |-> h]
    ELSE IF namespace \notin DOMAIN h[slot.ref] THEN [ok |-> FALSE, heap |-> h]
    ELSE IF ~h[slot.ref][namespace].isStr THEN [ok |-> FALSE, heap |-> h]
    ELSE [ok |-> TRUE, heap |-> [h EXCEPT ![slot.ref] = Delete(@, namespace)]]

RemovePSR4_ClearAll(h, slot, namespace) ==
    IF slot.tag # "map" THEN [ok |-> FALSE, heap |-> h]
    ELSE IF namespace \notin DOMAIN h[slot.ref] THEN [ok |-> FALSE, heap |-> h]
    ELSE [ok |-> TRUE, heap |-> [h EXCEPT ![slot.ref] = EmptyMap]]

RemovePSR4(h, slot, namespace) ==
    IF slot.tag # "map" THEN [ok |-> FALSE, heap |-> h]
    ELSE IF namespace \notin DOMAIN h[slot.ref] THEN [ok |-> FALSE, heap |-> h]
    ELSE [ok |-> TRUE, heap |-> [h EXCEPT ![slot.ref] = Delete(@, namespace)]]

(***************************************************************************)
(* Inputs of the dependency specification.                                 *)
(***************************************************************************)
PkgA == <<"a", "/", "b">>
PkgB == <<"c", "-", "d", "/", "e">>
Php == <<"p", "h", "p">>
BadPkg == <<"A", "/", "b">>

ValidPkgs == {PkgA, PkgB}

DepNames == {PkgA, PkgB, Php}

Caret1 == <<"^", "1">>
BadVer == <<"1", ".", "0", "$">>

Versions == {Caret1, BadVer}

ShortDesc == <<"t", "o", "o">>
LongDesc == <<"d", "e", "s", "c", "r", "i", "p", "t", "i", "o", "n">>

\* <<name, description>> arguments of CreateNew
CreateInputs == {<<PkgA, LongDesc>>, <<BadPkg, LongDesc>>, <<PkgA, ShortDesc>>}

DepPayloads ==
    {NullPayload,
     ObjPayload(JObj(Put(EmptyMap, PkgA, JStr(Caret1))), Absent, Absent),
     ObjPayload(JObj(Put(EmptyMap, PkgB, JStr(BadVer))), JObj(EmptyMap), JStr(SrcDir))}

MergePayloads ==
    {ObjPayload(Absent, Absent, Absent),
     ObjPayload(JObj(Put(EmptyMap, PkgA, JStr(Caret1))), JNull, Absent),
     ObjPayload(JObj(EmptyMap), JObj(Put(EmptyMap, PkgA, JStr(BadVer))), Absent)}

(***************************************************************************)
(* The operations of a program that holds one document.                    *)
(***************************************************************************)
Called(op, recv, a1, a2) == [op |-> op, recv |-> recv, arg1 |-> a1, arg2 |-> a2]

DoCreateNew(name, description) ==
    LET r == CreateNew(heap, name, description)
    IN  /\ ~crashed /\ doc.origin = "none"
        /\ call' = Called("CreateNew", "", name, description)
        /\ ret' = [NoRet EXCEPT !.err = r.err]
        /\ doc' = r.doc
        /\ heap' = r.heap
        /\ UNCHANGED <<result, crashed, lastOp>>

DoParseString(payload) ==
    LET r == convertToComposerJSON(heap, payload)
    IN  /\ ~crashed /\ doc.origin = "none"
        /\ call' = Called("ParseString", "", <<>>, <<>>)
        /\ ret' = [NoRet EXCEPT !.err = r.err]
        /\ doc' = r.doc
        /\ heap' = r.heap
        /\ UNCHANGED <<result, crashed, lastOp>>

\* the map a receiver names: a field of the document or the merged map
Target(recv) ==
    CASE recv = "require" -> doc.require
      [] recv = "requireDev" -> doc.requireDev
      [] recv = "result" -> result

\* c.DependencyExists / c.DevDependencyExists
DoDependencyExists(recv, packageName) ==
    /\ ~crashed /\ doc.origin # "none"
    /\ call' = Called("DependencyExists", recv, packageName, <<>>)
    /\ ret' = [NoRet EXCEPT !.ok = DependencyExists(heap, Target(recv), packageName)]
    /\ UNCHANGED <<heap, doc, result, crashed, lastOp>>

\* c.AddDependency / c.AddDevDependency / dependency.AddDependency(result, ...)
DoAddDependency(recv, packageName, version) ==
    LET r == AddDependency(heap, Target(recv), packageName, version)
    IN  /\ ~crashed /\ doc.origin # "none"
        /\ call' = Called("AddDependency", recv, packageName, version)
        /\ ret' = [NoRet EXCEPT !.err = r.err]
        /\ heap' = r.heap
        /\ crashed' = r.panic
        /\ lastOp' = IF doc.origin = "CreateNew" /\ recv = "require"
                        /\ r.err = "nil" /\ ~r.panic
                     THEN Put(lastOp, packageName, "add") ELSE lastOp
        /\ UNCHANGED <<doc, result>>

\* c.RemoveDependency / c.RemoveDevDependency / dependency.RemoveDependency(result, ...)
DoRemoveDependency(recv, packageName) ==
    LET r == RemoveDependency(heap, Target(recv), packageName)
    IN  /\ ~crashed /\ doc.origin # "none"
        /\ call' = Called("RemoveDependency", recv, packageName, <<>>)
        /\ ret' = [NoRet EXCEPT !.ok = r.ok]
        /\ heap' = r.heap
        /\ lastOp' = IF doc.origin = "CreateNew" /\ recv = "require" /\ r.ok
                     THEN Put(lastOp, packageName, "remove") ELSE lastOp
        /\ UNCHANGED <<doc, result, crashed>>

\* c.GetAllDependencies; the caller keeps the returned map in `result`
DoGetAllDependencies ==
    LET r == MergeDependencies(heap, doc.require, doc.requireDev)
    IN  /\ ~crashed /\ doc.origin # "none"
        /\ call' = Called("GetAllDependencies", "", <<>>, <<>>)
        /\ ret' = NoRet
        /\ result' = r.ref
        /\ heap' = Collect(r.heap, Roots(doc, r.ref))
        /\ UNCHANGED <<doc, crashed, lastOp>>

Init ==
    /\ heap = <<>>
    /\ doc = NoDoc
    /\ result = 0
    /\ call = NoCall
    /\ ret = NoRet
    /\ crashed = FALSE
    /\ lastOp = <<>>

Next ==
    \/ \E in \in CreateInputs : DoCreateNew(in[1], in[2])
    \/ \E p \in DepPayloads : DoParseString(p)
    \/ \E recv \in {"require", "requireDev"}, n \in DepNames :
           DoDependencyExists(recv, n)
    \/ \E recv \in {"require", "requireDev"}, n \in DepNames, v \in Versions :
           DoAddDependency(recv, n, v)
    \/ \E recv \in {"require", "requireDev"}, n \in DepNames :
           DoRemoveDependency(recv, n)

Spec == Init /\ [][Next]_vars

(***************************************************************************)
(* SpecMerge: a parsed document, its two dependency maps and the map       *)
(* GetAllDependencies returned, which the caller goes on changing.         *)
(***************************************************************************)
NextMerge ==
    \/ \E p \in MergePayloads : DoParseString(p)
    \/ \E recv \in {"require", "requireDev", "result"}, n \in ValidPkgs, v \in Versions :
           DoAddDependency(recv, n, v)
    \/ \E recv \in {"require", "requireDev", "result"}, n \in ValidPkgs :
           DoRemoveDependency(recv, n)
    \/ DoGetAllDependencies

SpecMerge == Init /\ [][NextMerge]_vars

(***************************************************************************)
(* SpecPSR4: a document and the namespace operations on its PSR4 field.    *)
(* call.recv keeps the shape the field had when the operation was called.  *)
(***************************************************************************)
NsA == <<"A", "\\">>
NsB == <<"B", "\\">>

\* a namespace without the trailing separator
NsBare == <<"c">>

Namespaces == {NsA, NsB, NsBare}

TestsDir == <<"t", "/">>
LibDir == <<"l", "/">>

Paths == {SrcDir, TestsDir, LibDir}

PSR4Payloads ==
    {ObjPayload(Absent, Absent, Absent),
     ObjPayload(Absent, Absent, JStr(SrcDir)),
     ObjPayload(Absent, Absent, JArr),
     ObjPayload(Absent, Absent, JObj(EmptyMap)),
     ObjPayload(Absent, Absent, JObj(Put(Put(EmptyMap, NsA, JStr(SrcDir)), NsB, JNum))),
     ObjPayload(Absent, Absent, JObj(Put(EmptyMap, NsA, JArr)))}

\* c.GetPSR4Map
DoGetPSR4Map ==
    LET r == GetPSR4Map(heap, doc.psr4)
    IN  /\ ~crashed /\ doc.origin # "none"
        /\ call' = Called("GetPSR4Map", doc.psr4.tag, <<>>, <<>>)
        /\ ret' = [NoRet EXCEPT !.ok = r.ok, !.val = r.val, !.isNil = r.isNil]
        /\ UNCHANGED <<heap, doc, result, crashed, lastOp>>

\* c.SetPSR4
DoSetPSR4(namespace, path) ==
    LET r == SetPSR4(heap, doc.psr4, namespace, path)
    IN  /\ ~crashed /\ doc.origin # "none"
        /\ call' = Called("SetPSR4", doc.psr4.tag, namespace, path)
        /\ ret' = NoRet
        /\ doc' = [doc EXCEPT !.psr4 = r.slot]
        /\ heap' = Collect(r.heap, Roots(doc', result))
        /\ UNCHANGED <<result, crashed, lastOp>>

\* c.RemovePSR4
DoRemovePSR4(namespace) ==
    LET r == RemovePSR4(heap, doc.psr4, namespace)
    IN  /\ ~crashed /\ doc.origin # "none"
        /\ call' = Called("RemovePSR4", doc.psr4.tag, namespace, <<>>)
        /\ ret' = [NoRet EXCEPT !.ok = r.ok]
        /\ heap' = r.heap
        /\ UNCHANGED <<doc, result, crashed, lastOp>>

NextPSR4 ==
    \/ \E in \in CreateInputs : DoCreateNew(in[1], in[2])
    \/ \E p \in PSR4Payloads : DoParseString(p)
    \/ DoGetPSR4Map
    \/ \E ns \in Namespaces, path \in Paths : DoSetPSR4(ns, path)
    \/ \E ns \in Namespaces : DoRemovePSR4(ns)

SpecPSR4 == Init /\ [][NextPSR4]_vars

(***************************************************************************)
(* SpecName: ValidatePackageName applied to every bounded input.           *)
(***************************************************************************)
InitName ==
    /\ heap = <<>>
    /\ doc = NoDoc
    /\ result = 0
    /\ call \in {[op |-> "input", recv |-> "", arg1 |-> n, arg2 |-> <<>>] : n \in NameInputs}
    /\ ret = NoRet
    /\ crashed = FALSE
    /\ lastOp = <<>>

DoValidatePackageName ==
    /\ call.op = "input"
    /\ call' = [call EXCEPT !.op = "ValidatePackageName"]
    /\ ret' = [NoRet EXCEPT !.err = ValidatePackageName(call.arg1)]
    /\ UNCHANGED <<heap, doc, result, crashed, lastOp>>

NextName == DoValidatePackageName

SpecName == InitName /\ [][NextName]_vars

(***************************************************************************)
(* SpecVersion: ValidateVersion applied to every string of a small         *)
(* alphabet up to MaxVersionLen, to the constraints built from the         *)
(* documented operators, numbers and suffixes, and to the examples of the  *)
(* documentation and the tests.                                            *)
(***************************************************************************)
VersionChars == {"1", ".", ">", "=", " ", "a"}

Operators == {<<"^">>, <<"~">>, <<">", "=">>, <<"<", "=">>, <<">">>, <<"<">>,
              <<"!", "=">>, <<"=", "=">>}

GenNums == {<<"1">>, <<"1", ".", "0">>, <<"1", ".", "0", ".", "2">>}

GenPre == {<<>>, <<"-", "a">>, <<"-", "R", "C", "-", "1", ".", "x">>}

GenBuild == {<<>>, <<"+", "b">>, <<"+", "b", ".", "7">>}

SingleTokens ==
    {op \o n \o p \o b : op \in Operators \cup {<<>>}, n \in GenNums,
                         p \in GenPre, b \in GenBuild}

RangeTokens ==
    {op \o n \o p : op \in Operators \cup {<<>>},
                    n \in {<<"1">>, <<"2", ".", "0">>}, p \in {<<>>, <<"-", "a">>}}

Gaps == {<<" ">>, <<" ", "\t">>}

Ranges == {a \o g \o b : a \in RangeTokens, g \in Gaps, b \in RangeTokens}

Star1 == <<"*">>
DevMaster == <<"d", "e", "v", "-", "m", "a", "s", "t", "e", "r">>
DevOnly == <<"d", "e", "v", "-">>
DevOdd == <<"d", "e", "v", "-", " ", "$">>
Invalid == <<"i", "n", "v", "a", "l", "i", "d">>
Dollar == <<"1", ".", "0", ".", "0", "$">>
FourParts == <<"1", ".", "2", ".", "3", ".", "4">>
Wildcard == <<"1", ".", "0", ".", "*">>
GeLt == <<">", "=", "1", ".", "0", ".", "0", " ", "<", "2", ".", "0", ".", "0">>
GtLt == <<">", "1", ".", "0", ".", "0", " ", "<", "2", ".", "0", ".", "0">>
CaretTilde == <<"^", "1", ".", "0", " ", "~", "2", ".", "0">>
EqBang == <<"=", "1", ".", "0", " ", "!", "2", ".", "0">>
ThreeClauses == <<">", "1", " ", "<", "3", " ", "!", "2">>

VersionExamples ==
    {Star1, DevMaster, DevOnly, DevOdd, Invalid, Dollar, FourParts, Wildcard,
     GeLt, GtLt, CaretTilde, EqBang, ThreeClauses}

VersionInputs ==
    SeqsUpTo(VersionChars, MaxVersionLen) \cup SingleTokens \cup Ranges
        \cup VersionExamples

InitVersion ==
    /\ heap = <<>>
    /\ doc = NoDoc
    /\ result = 0
    /\ call \in {[op |-> "input", recv |-> "", arg1 |-> v, arg2 |-> <<>>] :
                    v \in VersionInputs}
    /\ ret = NoRet
    /\ crashed = FALSE
    /\ lastOp = <<>>

DoValidateVersion ==
    /\ call.op = "input"
    /\ call' = [call EXCEPT !.op = "ValidateVersion"]
    /\ ret' = [NoRet EXCEPT !.err = ValidateVersion(call.arg1)]
    /\ UNCHANGED <<heap, doc, result, crashed, lastOp>>

NextVersion == DoValidateVersion

SpecVersion == InitVersion /\ [][NextVersion]_vars

(***************************************************************************)
(* SpecCreate: CreateNew, CreateProject and CreateLibrary applied to every *)
(* bounded name and a few descriptions.  call.recv holds the phpVersion    *)
(* argument, call.arg1 the name and call.arg2 the description.             *)
(***************************************************************************)
CreateNames == SeqsUpTo(NameChars, MaxCreateNameLen) \cup {PkgA, PkgB, BadPkg}

NineChars == <<"n", "i", "n", "e", " ", "l", "o", "n", "g">>
TenChars == <<"t", "e", "n", " ", "l", "e", "t", "t", "e", "r">>
\* four characters of three bytes each
WideDesc == <<"U+4E2D", "U+4E2D", "U+4E2D", "U+4E2D">>

CreateDescriptions == {<<>>, ShortDesc, NineChars, TenChars, LongDesc, WideDesc}

PhpVersions == {<<>>, Caret1, BadVer}

InitCreate ==
    /\ heap = <<>>
    /\ doc = NoDoc
    /\ result = 0
    /\ call \in {[op |-> "input", recv |-> pv, arg1 |-> n, arg2 |-> d] :
                    pv \in PhpVersions, n \in CreateNames, d \in CreateDescriptions}
    /\ ret = NoRet
    /\ crashed = FALSE
    /\ lastOp = <<>>

Returned(op, r) ==
    /\ call' = [call EXCEPT !.op = op]
    /\ ret' = [NoRet EXCEPT !.err = r.err, !.isNil = (r.err # "nil")]
    /\ doc' = r.doc
    /\ heap' = r.heap
    /\ UNCHANGED <<result, crashed, lastOp>>

CallCreateNew ==
    /\ call.op = "input"
    /\ Returned("CreateNew", CreateNew(heap, call.arg1, call.arg2))

CallCreateProject ==
    /\ call.op = "input"
    /\ Returned("CreateProject", CreateProject(heap, call.arg1, call.arg2, call.recv))

CallCreateLibrary ==
    /\ call.op = "input"
    /\ Returned("CreateLibrary", CreateLibrary(heap, call.arg1, call.arg2, call.recv))

NextCreate == CallCreateNew \/ CallCreateProject \/ CallCreateLibrary

SpecCreate == InitCreate /\ [][NextCreate]_vars

(***************************************************************************)
(* SpecParse: the parser and the document-level ingestion applied to every *)
(* text of a small alphabet up to MaxJsonLen and to example texts.         *)
(* call.recv tells the state of the source: "ok", "failing" (the read      *)
(* fails), "unopenable" or "missing" (files only); call.arg1 is its text.  *)
(***************************************************************************)
JsonChars == {"{", "}", "[", "]", "1", "\"", ":"}

\* "..." around the characters of s
Quoted(s) == <<"\"">> \o s \o <<"\"">>

\* {"key":value}
Member(key, value) == <<"{">> \o Quoted(key) \o <<":">> \o value \o <<"}">>

NullText == <<"n", "u", "l", "l">>
SpacedNullText == <<" ", "n", "u", "l", "l", "\n">>
TrueText == <<"t", "r", "u", "e">>
ListText == <<"[", "1", ",", "2", ",", "3", "]">>
StringText == Quoted(<<"a", "/", "b">>)
NumberText == <<"-", "1", ".", "5">>
TruncatedText == <<"{", "\"", "a", "\"", ":">>
TrailingText == <<"{", "}", "x">>
NameText == Member(NameKey, Quoted(PkgA))
NameNumberText == Member(NameKey, <<"1">>)
RequireText == Member(RequireKey, Member(PkgA, Quoted(Caret1)))
RequireListText == Member(RequireKey, <<"[", "]">>)
RequireNumberText == Member(RequireKey, Member(PkgA, <<"1">>))
AutoloadText == Member(AutoloadKey, Member(Psr4Key, Member(<<"A", "\\", "\\">>, Quoted(SrcDir))))
AutoloadListText == Member(AutoloadKey, <<"[", "]">>)
UnknownKeyText == Member(<<"x">>, <<"[", "1", "]">>)

ExampleTexts ==
    {NullText, SpacedNullText, TrueText, ListText, StringText, NumberText,
     TruncatedText, TrailingText, NameText, NameNumberText, RequireText,
     RequireListText, RequireNumberText, AutoloadText, AutoloadListText,
     UnknownKeyText}

JsonTexts == SeqsUpTo(JsonChars, MaxJsonLen) \cup ExampleTexts

InitParse ==
    /\ heap = <<>>
    /\ doc = NoDoc
    /\ result = 0
    /\ call \in {[op |-> "input", recv |-> "ok", arg1 |-> t, arg2 |-> <<>>] :
                    t \in JsonTexts}
               \cup {[op |-> "input", recv |-> f, arg1 |-> t, arg2 |-> <<>>] :
                        f \in {"failing", "unopenable", "missing"}, t \in ExampleTexts}
    /\ ret = NoRet
    /\ crashed = FALSE
    /\ lastOp = <<>>

\* a function of package parser returned r
ParserReturned(op, r) ==
    /\ call' = [call EXCEPT !.op = op]
    /\ ret' = [NoRet EXCEPT !.err = r.err, !.val = r.val, !.isNil = r.isNil]
    /\ UNCHANGED <<heap, doc, result, crashed, lastOp>>

\* parser.Parse on a reader
CallParserParse ==
    /\ call.op = "input" /\ call.recv \in {"ok", "failing"}
    /\ ParserReturned("parser.Parse", Parse(call.recv = "ok", call.arg1))

\* parser.ParseString on a string
CallParserParseString ==
    /\ call.op = "input" /\ call.recv = "ok"
    /\ ParserReturned("parser.ParseString", ParseString(call.arg1))

\* composer.ParseFile
CallParseFile ==
    /\ call.op = "input"
    /\ Returned("ParseFile", FromRaw(heap, ParseFile(call.recv, call.arg1)))

\* composer.ParseDir
CallParseDir ==
    /\ call.op = "input"
    /\ Returned("ParseDir", FromRaw(heap, ParseFile(call.recv, call.arg1)))

\* composer.Parse
CallParse ==
    /\ call.op = "input" /\ call.recv \in {"ok", "failing"}
    /\ Returned("Parse", FromRaw(heap, Parse(call.recv = "ok", call.arg1)))

\* composer.ParseString
CallParseString ==
    /\ call.op = "input" /\ call.recv = "ok"
    /\ Returned("ParseString", FromRaw(heap, ParseString(call.arg1)))

NextParse ==
    \/ CallParserParse
    \/ CallParserParseString
    \/ CallParseFile
    \/ CallParseDir
    \/ CallParse
    \/ CallParseString

SpecParse == InitParse /\ [][NextParse]_vars

(***************************************************************************)
(* SpecRound: a document is created or parsed, changed, written with       *)
(* ToJSON and parsed again from the text ToJSON returned.                  *)
(***************************************************************************)
\* a version holding a byte that is no valid UTF-8
BrokenVer == <<"1", "0xFF">>

RoundPayloads ==
    PSR4Payloads
        \cup {ObjPayload(JObj(Put(EmptyMap, PkgB, JStr(BadVer))), JObj(EmptyMap),
                          JObj(Put(Put(EmptyMap, NsA, JStr(SrcDir)), NsB, JArr)))}

\* c.Autoload.PSR4 = v for a Go value v that is no map[string]interface{}: a
\* map[string]string or a func
DoAssignPSR4(kind) ==
    /\ ~crashed /\ doc.origin # "none"
    /\ call' = Called("AssignPSR4", doc.psr4.tag, <<>>, <<>>)
    /\ ret' = NoRet
    /\ doc' = [doc EXCEPT !.psr4 = OtherSlot(kind)]
    /\ heap' = Collect(heap, Roots(doc', result))
    /\ UNCHANGED <<result, crashed, lastOp>>

\* c.ToJSON; ret.val is the text
DoToJSON(indent) ==
    LET r == ToJSON(heap, doc, indent)
    IN  /\ ~crashed /\ doc.origin # "none"
        /\ call' = Called("ToJSON", IF indent THEN "indent" ELSE "compact", <<>>, <<>>)
        /\ ret' = [NoRet EXCEPT !.err = r.err, !.val = r.text, !.isNil = FALSE]
        /\ UNCHANGED <<heap, doc, result, crashed, lastOp>>

\* composer.ParseString on the text ToJSON returned; the document it gives
\* takes the place of the one that was written
DoParseStringText ==
    LET r == FromRaw(heap, ParseString(ret.val))
    IN  /\ ~crashed /\ call.op = "ToJSON" /\ ret.err = "nil"
        /\ call' = Called("ParseString", "", ret.val, <<>>)
        /\ ret' = [NoRet EXCEPT !.err = r.err, !.isNil = (r.err # "nil")]
        /\ doc' = r.doc
        /\ heap' = Collect(r.heap, Roots(doc', result))
        /\ UNCHANGED <<result, crashed, lastOp>>

NextRound ==
    \/ \E in \in CreateInputs : DoCreateNew(in[1], in[2])
    \/ \E p \in RoundPayloads : DoParseString(p)
    \/ \E v \in {Caret1, BrokenVer} : DoAddDependency("require", PkgA, v)
    \/ DoSetPSR4(NsB, TestsDir)
    \/ \E kind \in {"strmap", "func"} : DoAssignPSR4(kind)
    \/ \E indent \in BOOLEAN : DoToJSON(indent)
    \/ DoParseStringText

SpecRound == Init /\ [][NextRound]_vars

(***************************************************************************)
(* A program that edits the exclude list of one document.                  *)
(***************************************************************************)
VendorPattern == <<"/", "v", "e", "n", "d", "o", "r">>
TestsPattern == <<"/", "t", "e", "s", "t", "s">>
GithubPattern == <<"/", ".", "g", "i", "t", "h", "u", "b">>
NewPattern == <<"/", "n", "e", "w">>

Patterns == {VendorPattern, TestsPattern, GithubPattern, NewPattern}

\* c.Archive = *archive.NewArchive()
DoNewArchive ==
    /\ ~crashed /\ doc.origin # "none"
    /\ call' = Called("NewArchive", "", <<>>, <<>>)
    /\ ret' = NoRet
    /\ doc' = [doc EXCEPT !.exclude = NewArchive]
    /\ UNCHANGED <<heap, result, crashed, lastOp>>

\* c.AddExclusion
DoAddExclusion(pattern) ==
    /\ ~crashed /\ doc.origin # "none"
    /\ call' = Called("AddExclusion", "", pattern, <<>>)
    /\ ret' = NoRet
    /\ doc' = [doc EXCEPT !.exclude = AddExclusion(doc.exclude, pattern)]
    /\ UNCHANGED <<heap, result, crashed, lastOp>>

\* c.RemoveExclusion
DoRemoveExclusion(pattern) ==
    LET r == RemoveExclusion(doc.exclude, pattern)
    IN  /\ ~crashed /\ doc.origin # "none"
        /\ call' = Called("RemoveExclusion", "", pattern, <<>>)
        /\ ret' = [NoRet EXCEPT !.ok = r.ok]
        /\ doc' = [doc EXCEPT !.exclude = r.exclude]
        /\ UNCHANGED <<heap, result, crashed, lastOp>>

NextArchive ==
    \/ DoCreateNew(PkgA, <<>>)
    \/ DoNewArchive
    \/ \E pattern \in Patterns : DoAddExclusion(pattern)
    \/ \E pattern \in Patterns : DoRemoveExclusion(pattern)

SpecArchive == Init /\ [][NextArchive]_vars

(***************************************************************************)
(* A program that creates one document and edits its dependencies.         *)
(***************************************************************************)
DoCreateProject(name, description, phpVersion) ==
    LET r == CreateProject(heap, name, description, phpVersion)
    IN  /\ ~crashed /\ doc.origin = "none"
        /\ call' = Called("CreateProject", phpVersion, name, description)
        /\ ret' = [NoRet EXCEPT !.err = r.err]
        /\ doc' = r.doc
        /\ heap' = r.heap
        /\ UNCHANGED <<result, crashed, lastOp>>

DoCreateLibrary(name, description, phpVersion) ==
    LET r == CreateLibrary(heap, name, description, phpVersion)
    IN  /\ ~crashed /\ doc.origin = "none"
        /\ call' = Called("CreateLibrary", phpVersion, name, description)
        /\ ret' = [NoRet EXCEPT !.err = r.err]
        /\ doc' = r.doc
        /\ heap' = r.heap
        /\ UNCHANGED <<result, crashed, lastOp>>

NextLife ==
    \/ \E in \in CreateInputs : DoCreateNew(in[1], in[2])
    \/ \E in \in CreateInputs, v \in {<<>>, Caret1} :
           DoCreateProject(in[1], in[2], v)
    \/ \E in \in CreateInputs, v \in {<<>>, Caret1} :
           DoCreateLibrary(in[1], in[2], v)
    \/ \E recv \in {"require", "requireDev"}, n \in {PkgA, Php, BadPkg} :
           DoAddDependency(recv, n, Caret1)
    \/ \E recv \in {"require", "requireDev"}, n \in {PkgA, Php, BadPkg} :
           DoRemoveDependency(recv, n)

SpecLife == Init /\ [][NextLife]_vars

(***************************************************************************)
(* A program that ingests a text with a config block and writes the        *)
(* document out again.                                                     *)
(***************************************************************************)
\* {"k1":v1,"k2":v2,...} of the <<key, value text>> pairs in members
RECURSIVE MemberList(_)
MemberList(members) ==
    IF members = <<>> THEN <<>>
    ELSE Quoted(Head(members)[1]) \o <<":">> \o Head(members)[2]
         \o (IF Tail(members) = <<>> THEN <<>> ELSE <<",">>)
         \o MemberList(Tail(members))

ObjectText(members) == <<"{">> \o MemberList(members) \o <<"}">>

FalseText == <<"f", "a", "l", "s", "e">>

\* the settings of an option: <<>> leaves the option out
SecureHttpSettings == {<<>>, << <<SecureHttpKey, FalseText>> >>,
                       << <<SecureHttpKey, TrueText>> >>}
ProcessTimeoutSettings == {<<>>, << <<ProcessTimeoutKey, <<"0">> >> >>,
                           << <<ProcessTimeoutKey, <<"3", "0">> >> >>}
VendorDirSettings == {<<>>, << <<VendorDirKey, Quoted(<<>>)>> >>,
                      << <<VendorDirKey, Quoted(<<"v">>)>> >>}
CacheFilesMaxsizeSettings == {<<>>, << <<CacheFilesMaxsizeKey, Quoted(<<"1">>)>> >>}
UseGithubApiSettings == {<<>>, << <<UseGithubApiKey, TrueText>> >>}
ExtraSettings == {<<>>, << <<ExtraKey, ObjectText(<< <<NsBare, <<"1">> >> >>)>> >>}

ConfigTexts ==
    {ObjectText(<< <<ConfigKey, ObjectText(a \o b \o c \o d \o e)>> >> \o x) :
        a \in SecureHttpSettings, b \in ProcessTimeoutSettings,
        c \in VendorDirSettings, d \in CacheFilesMaxsizeSettings,
        e \in UseGithubApiSettings, x \in ExtraSettings}
    \cup {Member(ConfigKey, <<"[", "]">>),
          Member(ConfigKey, Member(SecureHttpKey, <<"1">>)),
          Member(ConfigKey, Member(ProcessTimeoutKey, <<"1", ".", "5">>)),
          Member(ExtraKey, <<"1">>)}

\* composer.ParseString on a text
DoParseStringJSON(jsonStr) ==
    LET r == FromRaw(heap, ParseString(jsonStr))
    IN  /\ ~crashed /\ doc.origin = "none"
        /\ call' = Called("ParseString", "", jsonStr, <<>>)
        /\ ret' = [NoRet EXCEPT !.err = r.err, !.isNil = (r.err # "nil")]
        /\ doc' = r.doc
        /\ heap' = Collect(r.heap, Roots(doc', result))
        /\ UNCHANGED <<result, crashed, lastOp>>

NextConfig ==
    \/ \E jsonStr \in ConfigTexts : DoParseStringJSON(jsonStr)
    \/ \E indent \in BOOLEAN : DoToJSON(indent)
    \/ DoParseStringText

SpecConfig == Init /\ [][NextConfig]_vars

(***************************************************************************)
(* C5: ValidatePackageName succeeds exactly for the names with exactly     *)
(* one '/' whose two segments start and end with a lower-case letter or    *)
(* digit, contain only those and the separators _ . -, and never have two  *)
(* separators in a row; the error kinds have the precedence EmptyName,     *)
(* MalformedName, InvalidVendorSegment, InvalidProjectSegment.             *)
(***************************************************************************)
SlashCount(s) == Cardinality({i \in 1..Len(s) : s[i] = "/"})

SegmentOK(seg) ==
    /\ Len(seg) >= 1
    /\ \A i \in 1..Len(seg) : seg[i] \in Lower \cup Digit \cup {"_", ".", "-"}
    /\ seg[1] \in Lower \cup Digit
    /\ seg[Len(seg)] \in Lower \cup Digit
    /\ \A i \in 1..(Len(seg) - 1) :
           ~(seg[i] \in {"_", ".", "-"} /\ seg[i + 1] \in {"_", ".", "-"})

VendorOf(s) == SubSeq(s, 1, (CHOOSE i \in 1..Len(s) : s[i] = "/") - 1)

ProjectOf(s) == SubSeq(s, (CHOOSE i \in 1..Len(s) : s[i] = "/") + 1, Len(s))

ExpectedNameKind(s) ==
    IF s = <<>> THEN "EmptyName"
    ELSE IF SlashCount(s) # 1 THEN "MalformedName"
    ELSE IF ~SegmentOK(VendorOf(s)) THEN "InvalidVendorSegment"
    ELSE IF ~SegmentOK(ProjectOf(s)) THEN "InvalidProjectSegment"
    ELSE "nil"

C5_NameGrammar ==
    call.op = "ValidatePackageName" => ret.err = ExpectedNameKind(call.arg1)

\* a name whose two segments are both invalid was reported as a vendor error
C5_Witness ==
    /\ call.op = "ValidatePackageName"
    /\ call.arg1 = <<"A", "/", "$">>
    /\ ret.err = "InvalidVendorSegment"

(***************************************************************************)
(* C1: AddDependency with a package name that fails the name grammar       *)
(* returns an error and leaves every map as it was: nothing is inserted,   *)
(* overwritten or removed, whatever the map held and whatever the version. *)
(***************************************************************************)
C1_NoPartialMutation ==
    [][(call'.op = "AddDependency" /\ ValidatePackageName(call'.arg1) # "nil")
         => (ret'.err # "nil" /\ ~crashed' /\ heap' = heap /\ doc' = doc)]_vars

\* "php" was refused on a document whose require map already held an entry
C1_Witness ==
    /\ call.op = "AddDependency" /\ call.recv = "require" /\ call.arg1 = Php
    /\ ret.err = "MalformedName"
    /\ doc.require # 0
    /\ DOMAIN heap[doc.require] # {}

(***************************************************************************)
(* C2: AddDependency / AddDevDependency of the document, called with a     *)
(* valid name while the require / require-dev map is nil, initializes the  *)
(* map and inserts the entry: no crash, and the entry is present after.    *)
(***************************************************************************)
C2_LazyInit ==
    (call.op = "AddDependency" /\ ValidatePackageName(call.arg1) = "nil")
        => (~crashed /\ DependencyExists(heap, Target(call.recv), call.arg1))

(***************************************************************************)
(* C3: AddDependency on a non-nil map with a grammar-valid name succeeds   *)
(* for every version, also one ValidateVersion rejects; afterwards the     *)
(* map holds name -> version and every other entry is unchanged.           *)
(***************************************************************************)
C3_AddInsertsOrOverwrites ==
    [][(/\ call'.op = "AddDependency"
        /\ ValidatePackageName(call'.arg1) = "nil"
        /\ Target(call'.recv) # 0)
         => LET t == Target(call'.recv)
                n == call'.arg1
            IN  /\ ret'.err = "nil" /\ ~crashed'
                /\ n \in DOMAIN heap'[t] /\ heap'[t][n] = call'.arg2
                /\ DOMAIN heap'[t] = (DOMAIN heap[t]) \cup {n}
                /\ \A k \in (DOMAIN heap[t]) \ {n} : heap'[t][k] = heap[t][k]
                /\ \A a \in (DOMAIN heap) \ {t} : heap'[a] = heap[a]]_vars

\* a version the version grammar rejects overwrote an accepted one, next to
\* another entry
C3_Witness ==
    /\ call.op = "AddDependency" /\ call.recv = "require"
    /\ call.arg1 = PkgA /\ call.arg2 = BadVer
    /\ ValidateVersion(BadVer) # "nil"
    /\ ret.err = "nil"
    /\ doc.require # 0
    /\ DOMAIN heap[doc.require] = {PkgA, PkgB}
    /\ heap[doc.require][PkgA] = BadVer
    /\ PkgA \in DOMAIN lastOp

(***************************************************************************)
(* C4: on a document with an initialized require map AddDependency("php",  *)
(* v) returns no error and require["php"] is v afterwards.                 *)
(***************************************************************************)
C4_PhpAccepted ==
    (call.op = "AddDependency" /\ call.recv = "require" /\ call.arg1 = Php
       /\ doc.require # 0)
        => (/\ ret.err = "nil"
            /\ Php \in DOMAIN heap[doc.require]
            /\ heap[doc.require][Php] = call.arg2)

(***************************************************************************)
(* C6: GetAllDependencies returns a non-nil map whose keys are the keys of *)
(* require and of require-dev together, each with the require-dev value    *)
(* if require-dev has the key and the require value otherwise; a nil map   *)
(* contributes nothing.                                                    *)
(***************************************************************************)
C6_MergeOverride ==
    [][call'.op = "GetAllDependencies"
         => LET A == MapAt(heap, doc.require)
                B == MapAt(heap, doc.requireDev)
            IN  /\ result' # 0
                /\ DOMAIN heap'[result'] = (DOMAIN A) \cup (DOMAIN B)
                /\ \A k \in DOMAIN heap'[result'] :
                       heap'[result'][k] = IF k \in DOMAIN B THEN B[k] ELSE A[k]]_vars

\* both maps hold the same package with different versions
C6_Witness ==
    /\ call.op = "GetAllDependencies"
    /\ doc.require # 0 /\ doc.requireDev # 0
    /\ PkgA \in DOMAIN heap[doc.require] /\ PkgA \in DOMAIN heap[doc.requireDev]
    /\ heap[doc.require][PkgA] # heap[doc.requireDev][PkgA]
    /\ heap[result][PkgA] = heap[doc.requireDev][PkgA]

(***************************************************************************)
(* C7: GetAllDependencies changes neither require nor require-dev and      *)
(* returns a newly allocated map; a later insertion into or deletion from  *)
(* the returned map changes neither of them.                               *)
(***************************************************************************)
C7_MergeFresh ==
    [][/\ call'.op = "GetAllDependencies"
            => /\ result' # 0 /\ result' \notin DOMAIN heap
               /\ doc' = doc
               /\ MapAt(heap', doc.require) = MapAt(heap, doc.require)
               /\ MapAt(heap', doc.requireDev) = MapAt(heap, doc.requireDev)
       /\ (call'.op \in {"AddDependency", "RemoveDependency"} /\ call'.recv = "result")
            => /\ doc' = doc
               /\ MapAt(heap', doc.require) = MapAt(heap, doc.require)
               /\ MapAt(heap', doc.requireDev) = MapAt(heap, doc.requireDev)]_vars

\* the returned map was given an entry that neither map of the document has
C7_Witness ==
    /\ call.op = "AddDependency" /\ call.recv = "result" /\ call.arg1 = PkgB
    /\ ret.err = "nil" /\ ~crashed
    /\ result # 0 /\ PkgB \in DOMAIN heap[result]
    /\ doc.require # 0
    /\ DOMAIN heap[doc.require] = {PkgA}
    /\ PkgB \notin DOMAIN MapAt(heap, doc.requireDev)

(***************************************************************************)
(* C8: on a document CreateNew returned, DependencyExists(n) holds exactly *)
(* when the last operation that changed n was a successful add;            *)
(* RemoveDependency(n) returns whether n existed just before, leaves n     *)
(* absent and changes no other entry; an operation on require does not     *)
(* change require-dev, nor the other way round.                            *)
(***************************************************************************)
C8_ExistsTracksHistory ==
    doc.origin = "CreateNew" =>
        /\ \A n \in DepNames :
               DependencyExists(heap, doc.require, n)
                   <=> (n \in DOMAIN lastOp /\ lastOp[n] = "add")
        /\ (call.op = "DependencyExists" /\ call.recv = "require")
               => (ret.ok <=> (call.arg1 \in DOMAIN lastOp /\ lastOp[call.arg1] = "add"))

C8_RemoveStep ==
    /\ call'.op = "RemoveDependency"
         => LET t == Target(call'.recv)
                n == call'.arg1
            IN  /\ ret'.ok = DependencyExists(heap, t, n)
                /\ ~DependencyExists(heap', t, n)
                /\ DOMAIN MapAt(heap', t) = (DOMAIN MapAt(heap, t)) \ {n}
                /\ \A k \in DOMAIN MapAt(heap', t) : heap'[t][k] = heap[t][k]
    /\ (call'.op \in {"AddDependency", "RemoveDependency"} /\ call'.recv = "require")
         => MapAt(heap', doc.requireDev) = MapAt(heap, doc.requireDev)
    /\ (call'.op \in {"AddDependency", "RemoveDependency"} /\ call'.recv = "requireDev")
         => MapAt(heap', doc.require) = MapAt(heap, doc.require)

C8_AddRemoveExists == []C8_ExistsTracksHistory /\ [][C8_RemoveStep]_vars

\* one package was added and removed again, another one added and kept
C8_Witness ==
    /\ doc.origin = "CreateNew"
    /\ call.op = "RemoveDependency" /\ call.recv = "require" /\ call.arg1 = PkgA
    /\ ret.ok
    /\ PkgA \in DOMAIN lastOp /\ lastOp[PkgA] = "remove"
    /\ PkgB \in DOMAIN lastOp /\ lastOp[PkgB] = "add"
    /\ DOMAIN heap[doc.require] = {PkgB}
    /\ DOMAIN heap[doc.requireDev] # {}

(***************************************************************************)
(* C9: whatever the PSR4 field held (nothing, a map or a foreign value),   *)
(* GetPSR4Map after SetPSR4(ns, p) returns ok and a map with ns -> p, and  *)
(* GetPSR4Map after RemovePSR4(ns) returns a map without ns.               *)
(***************************************************************************)
C9_AfterWrite ==
    /\ call.op = "SetPSR4"
         => LET g == GetPSR4Map(heap, doc.psr4)
            IN  g.ok /\ call.arg1 \in DOMAIN g.val /\ g.val[call.arg1] = call.arg2
    /\ call.op = "RemovePSR4"
         => call.arg1 \notin DOMAIN GetPSR4Map(heap, doc.psr4).val

C9_ReadStep ==
    /\ (call.op = "SetPSR4" /\ call'.op = "GetPSR4Map")
         => /\ ret'.ok
            /\ call.arg1 \in DOMAIN ret'.val
            /\ ret'.val[call.arg1] = call.arg2
    /\ (call.op = "RemovePSR4" /\ call'.op = "GetPSR4Map")
         => call.arg1 \notin DOMAIN ret'.val

C9_PSR4RoundTrip == []C9_AfterWrite /\ [][C9_ReadStep]_vars

\* SetPSR4 replaced a foreign value, and the namespace reads back
C9_Witness ==
    /\ call.op = "SetPSR4" /\ call.recv = "other"
    /\ call.arg1 = NsB /\ call.arg2 = TestsDir
    /\ doc.psr4.tag = "map"
    /\ GetPSR4Map(heap, doc.psr4).val = Put(EmptyMap, NsB, TestsDir)

(***************************************************************************)
(* C10: GetPSR4Map never crashes and does not change the PSR4 field; it    *)
(* returns (nil, false) when the field is absent or not a map, and         *)
(* otherwise true with exactly the entries whose value is a string.        *)
(***************************************************************************)
C10_DefensiveRead ==
    [][call'.op = "GetPSR4Map"
         => /\ ~crashed' /\ heap' = heap /\ doc' = doc
            /\ doc.psr4.tag # "map" => (ret'.isNil /\ ~ret'.ok /\ ret'.val = EmptyMap)
            /\ doc.psr4.tag = "map"
                 => LET m == heap[doc.psr4.ref]
                    IN  /\ ret'.ok /\ ~ret'.isNil
                        /\ \A ns \in DOMAIN m :
                               IF m[ns].isStr
                               THEN ns \in DOMAIN ret'.val /\ ret'.val[ns] = m[ns].s
                               ELSE ns \notin DOMAIN ret'.val
                        /\ DOMAIN ret'.val \subseteq DOMAIN m]_vars

\* a map with one string value and one value that is not a string was read
C10_Witness ==
    /\ call.op = "GetPSR4Map"
    /\ ret.ok
    /\ doc.psr4.tag = "map"
    /\ DOMAIN heap[doc.psr4.ref] = {NsA, NsB}
    /\ ~heap[doc.psr4.ref][NsB].isStr
    /\ ret.val = Put(EmptyMap, NsA, SrcDir)

(***************************************************************************)
(* C11: SetPSR4(ns, p) on a PSR4 field that is absent or not a map         *)
(* discards what the field held and leaves exactly the map {ns -> p}; on   *)
(* a field that is a map it keeps that map, inserts or overwrites ns -> p  *)
(* and leaves every other entry, string-valued or not, as it was.  The     *)
(* field is a map afterwards and no ns or p is refused.                    *)
(***************************************************************************)
C11_SetPSR4 ==
    [][call'.op = "SetPSR4"
         => /\ ~crashed'
            /\ doc'.psr4.tag = "map"
            /\ doc.psr4.tag # "map"
                 => heap'[doc'.psr4.ref] = Put(EmptyMap, call'.arg1, StrVal(call'.arg2))
            /\ doc.psr4.tag = "map"
                 => LET old == heap[doc.psr4.ref]
                        new == heap'[doc'.psr4.ref]
                    IN  /\ doc'.psr4 = doc.psr4
                        /\ DOMAIN new = (DOMAIN old) \cup {call'.arg1}
                        /\ new[call'.arg1] = StrVal(call'.arg2)
                        /\ \A ns \in (DOMAIN old) \ {call'.arg1} : new[ns] = old[ns]]_vars

\* a namespace without separator was set on a map that keeps its entry
\* whose value is not a string
C11_Witness ==
    /\ call.op = "SetPSR4" /\ call.recv = "map"
    /\ call.arg1 = NsBare /\ call.arg2 = TestsDir
    /\ doc.psr4.tag = "map"
    /\ DOMAIN heap[doc.psr4.ref] = {NsA, NsB, NsBare}
    /\ heap[doc.psr4.ref][NsB] = NonStrVal
    /\ heap[doc.psr4.ref][NsBare] = StrVal(TestsDir)

(***************************************************************************)
(* C12: RemovePSR4(ns) returns false and leaves the PSR4 field exactly as  *)
(* it was (absent, foreign value, or map with all its entries) when the    *)
(* field is not a map or ns is not a key of it; otherwise it deletes only  *)
(* the key ns and returns true.  It never turns the field into a map.      *)
(***************************************************************************)
C12_RemovePSR4 ==
    [][call'.op = "RemovePSR4"
         => /\ ~crashed'
            /\ doc' = doc
            /\ IF doc.psr4.tag # "map" \/ call'.arg1 \notin DOMAIN heap[doc.psr4.ref]
               THEN ~ret'.ok /\ heap' = heap
               ELSE /\ ret'.ok
                    /\ DOMAIN heap' = DOMAIN heap
                    /\ \A a \in (DOMAIN heap) \ {doc.psr4.ref} : heap'[a] = heap[a]
                    /\ heap'[doc.psr4.ref] = Delete(heap[doc.psr4.ref], call'.arg1)]_vars

\* one key was removed from a map that keeps its other entry
C12_Witness ==
    /\ call.op = "RemovePSR4" /\ call.arg1 = NsA
    /\ ret.ok
    /\ doc.psr4.tag = "map"
    /\ DOMAIN heap[doc.psr4.ref] = {NsB}
    /\ heap[doc.psr4.ref][NsB] = NonStrVal

\* a foreign value survived RemovePSR4
C12_ForeignKept ==
    /\ call.op = "RemovePSR4" /\ call.recv = "other"
    /\ ~ret.ok
    /\ doc.psr4.tag = "other"

(***************************************************************************)
(* The version grammar as the specification words it: a single token is    *)
(* 1 to 3 dot-separated numbers, at most one operator before them, then an *)
(* optional -prerelease and an optional +buildmetadata, each a list of     *)
(* dot-separated segments of letters, digits and hyphens.                  *)
(***************************************************************************)
IsPrefix(p, s) == Len(p) <= Len(s) /\ SubSeq(s, 1, Len(p)) = p

IsNumber(s) == s # <<>> /\ \A i \in 1..Len(s) : s[i] \in Digit

SegmentsOK(s) ==
    LET parts == Split(s, ".")
    IN  \A k \in 1..Len(parts) :
            /\ parts[k] # <<>>
            /\ \A i \in 1..Len(parts[k]) :
                   parts[k][i] \in Digit \cup Upper \cup Lower \cup {"-"}

\* the first position of c in s, 0 when there is none
FirstIndex(s, c) ==
    IF \E i \in 1..Len(s) : s[i] = c
    THEN CHOOSE i \in 1..Len(s) : s[i] = c /\ \A k \in 1..(i - 1) : s[k] # c
    ELSE 0

BareToken(t) ==
    LET plus == FirstIndex(t, "+")
        main == IF plus = 0 THEN t ELSE SubSeq(t, 1, plus - 1)
        dash == FirstIndex(main, "-")
        nums == IF dash = 0 THEN main ELSE SubSeq(main, 1, dash - 1)
        comps == Split(nums, ".")
    IN  /\ plus # 0 => SegmentsOK(SubSeq(t, plus + 1, Len(t)))
        /\ dash # 0 => SegmentsOK(SubSeq(main, dash + 1, Len(main)))
        /\ Len(comps) \in 1..3
        /\ \A k \in 1..Len(comps) : IsNumber(comps[k])

SingleToken(t) ==
    \/ BareToken(t)
    \/ \E op \in Operators : IsPrefix(op, t) /\ BareToken(SubSeq(t, Len(op) + 1, Len(t)))

FourNumbers(t) ==
    LET comps == Split(t, ".")
    IN  Len(comps) = 4 /\ \A k \in 1..4 : IsNumber(comps[k])

\* two single tokens with only whitespace between them
TwoTokenRange(v) ==
    \E i \in 2..Len(v), j \in 2..Len(v) :
        /\ i <= j /\ j < Len(v)
        /\ \A k \in i..j : v[k] \in Space
        /\ SingleToken(SubSeq(v, 1, i - 1))
        /\ SingleToken(SubSeq(v, j + 1, Len(v)))

\* the positions at which a clause (a maximal run without whitespace) starts
ClauseStarts(v) ==
    {i \in 1..Len(v) : v[i] \notin Space /\ (i = 1 \/ v[i - 1] \in Space)}

\* the clause at i starts with a number or with one listed operator and a number
ClauseOperatorOK(v, i) ==
    \/ v[i] \in Digit
    \/ \E op \in Operators :
           /\ i + Len(op) <= Len(v)
           /\ SubSeq(v, i, i + Len(op) - 1) = op
           /\ v[i + Len(op)] \in Digit

(***************************************************************************)
(* C13: ValidateVersion accepts the empty string, "*", every string that   *)
(* begins with "dev-" and every single version token (1 to 3 numbers, at   *)
(* most one of ^ ~ >= <= > < != == before them, optional -prerelease and   *)
(* +buildmetadata); it rejects "invalid", "1.0.0$" and tokens with four    *)
(* numeric components with InvalidVersionFormat.                           *)
(***************************************************************************)
C13_SingleVersions ==
    call.op = "ValidateVersion"
      => LET v == call.arg1
         IN  /\ (v = <<>> \/ v = Star1 \/ IsPrefix(DevOnly, v) \/ SingleToken(v))
                  => ret.err = "nil"
             /\ (v \in {Invalid, Dollar} \/ FourNumbers(v))
                  => ret.err = "InvalidVersionFormat"

\* a token with operator, three numbers, prerelease and build metadata passed
C13_Witness ==
    /\ call.op = "ValidateVersion"
    /\ call.arg1 = <<"!", "=">> \o <<"1", ".", "0", ".", "2">>
                      \o <<"-", "R", "C", "-", "1", ".", "x">> \o <<"+", "b", ".", "7">>
    /\ ret.err = "nil"

\* a token with four numbers was refused
C13_FourRejected ==
    /\ call.op = "ValidateVersion" /\ call.arg1 = FourParts
    /\ ret.err = "InvalidVersionFormat"

(***************************************************************************)
(* C14: ValidateVersion accepts every range of two single version tokens   *)
(* separated by whitespace, each token being one it accepts on its own     *)
(* (">=1.0.0 <2.0.0", "^1.0 ~2.0", tokens with a prerelease suffix).       *)
(***************************************************************************)
C14_RangesAccepted ==
    (call.op = "ValidateVersion" /\ TwoTokenRange(call.arg1)) => ret.err = "nil"

(***************************************************************************)
(* C15: every accepted string other than "", "*" and the dev- strings has  *)
(* at most two clauses, and each clause has no operator or one of          *)
(* ^ ~ >= <= > < != ==; a clause with a lone "=" or "!" ("=1.0 !2.0") and  *)
(* expressions of three or more clauses are rejected.                      *)
(***************************************************************************)
C15_OnlyListedOperators ==
    (/\ call.op = "ValidateVersion" /\ ret.err = "nil"
     /\ call.arg1 # <<>> /\ call.arg1 # Star1 /\ ~IsPrefix(DevOnly, call.arg1))
      => /\ Cardinality(ClauseStarts(call.arg1)) <= 2
         /\ \A i \in ClauseStarts(call.arg1) : ClauseOperatorOK(call.arg1, i)

(***************************************************************************)
(* C16: ValidateVersion accepts the wildcard version "1.0.*" that its      *)
(* documentation lists among the supported formats.                        *)
(***************************************************************************)
C16_WildcardAccepted ==
    (call.op = "ValidateVersion" /\ call.arg1 = Wildcard) => ret.err = "nil"

(***************************************************************************)
(* C17: ValidateVersion is total: it returns success or                    *)
(* InvalidVersionFormat for every input and never crashes; an input is     *)
(* accepted exactly when it has one of the five forms (empty, "*", dev-    *)
(* prefix, single constrained version, two-clause range), and no input has *)
(* two of them.                                                            *)
(***************************************************************************)
FormsOf(v) ==
    {f \in 1..5 :
        \/ f = 1 /\ v = <<>>
        \/ f = 2 /\ v = <<"*">>
        \/ f = 3 /\ MatchString(devRegex, v)
        \/ f = 4 /\ MatchString(versionRegex, v)
        \/ f = 5 /\ MatchString(rangeRegex, v)}

C17_TotalAndDisjoint ==
    /\ ~crashed
    /\ call.op = "ValidateVersion"
         => /\ ret.err \in {"nil", "InvalidVersionFormat"}
            /\ Cardinality(FormsOf(call.arg1)) <= 1
            /\ ret.err = "nil" <=> Cardinality(FormsOf(call.arg1)) = 1

\* a range of two clauses was accepted, by the range form alone
C17_Witness ==
    /\ call.op = "ValidateVersion" /\ call.arg1 = GtLt
    /\ ret.err = "nil"
    /\ FormsOf(call.arg1) = {5}

(***************************************************************************)
(* C18: for every grammar-valid name vendor/project and every description  *)
(* that is empty or long enough, CreateNew succeeds with a document that   *)
(* has that name and description, type "library", license "MIT", empty     *)
(* non-nil require and require-dev maps and a PSR-4 map with exactly one   *)
(* entry: the vendor and the project, each with its first character in     *)
(* upper case when it is a-z, joined and followed by "\", mapped to "src/".*)
(***************************************************************************)
Capitalized(seg) ==
    IF seg # <<>> /\ seg[1] \in Lower
    THEN <<UpperSeq[CHOOSE k \in 1..26 : LowerSeq[k] = seg[1]]>> \o Tail(seg)
    ELSE seg

ExpectedNamespace(name) ==
    Capitalized(VendorOf(name)) \o <<"\\">> \o Capitalized(ProjectOf(name)) \o <<"\\">>

C18_CreateDefaults ==
    (/\ call.op = "CreateNew"
     /\ ExpectedNameKind(call.arg1) = "nil"
     /\ (call.arg2 = <<>> \/ Len(call.arg2) >= 10))
      => /\ ret.err = "nil" /\ ~ret.isNil
         /\ doc.name = call.arg1 /\ doc.description = call.arg2
         /\ doc.type = "library" /\ doc.license = "MIT"
         /\ doc.require # 0 /\ heap[doc.require] = EmptyMap
         /\ doc.requireDev # 0 /\ heap[doc.requireDev] = EmptyMap
         /\ doc.psr4.tag = "map"
         /\ heap[doc.psr4.ref] =
                Put(EmptyMap, ExpectedNamespace(call.arg1), StrVal(<<"s", "r", "c", "/">>))

\* a name whose vendor starts with a letter and whose project starts with a
\* digit was created with a description of exactly ten characters
C18_Witness ==
    /\ call.op = "CreateNew"
    /\ call.arg1 = <<"a", "/", "0">> /\ call.arg2 = TenChars
    /\ ret.err = "nil"
    /\ DOMAIN heap[doc.psr4.ref] = {<<"A", "\\", "0", "\\">>}

C19_ShortRefused ==
    /\ call.op = "CreateLibrary"
    /\ call.arg1 = PkgA /\ call.arg2 = NineChars
    /\ ret.err = "DescriptionTooShort" /\ ret.isNil

(***************************************************************************)
(* C20 as stated: with an empty name CreateNew applies no validation, so   *)
(* CreateNew("", d) succeeds for every description d, a non-empty one      *)
(* under the minimum length included, with a PSR-4 map without entries.    *)
(***************************************************************************)
C20_EmptyNameUnchecked ==
    (call.op = "CreateNew" /\ call.arg1 = <<>>)
      => /\ ret.err = "nil"
         /\ doc.psr4.tag = "map" /\ heap[doc.psr4.ref] = EmptyMap

(***************************************************************************)
(* C20 amended: with an empty name CreateNew skips the name grammar only;  *)
(* the document-level validation still runs.  CreateNew("", d) succeeds,   *)
(* with a PSR-4 map without entries, exactly when d is empty or at least   *)
(* 10 bytes long, and returns DescriptionTooShort and no document          *)
(* otherwise.                                                              *)
(***************************************************************************)
C20_EmptyNameChecked ==
    (call.op = "CreateNew" /\ call.arg1 = <<>>)
      => IF call.arg2 = <<>> \/ ByteLen(call.arg2) >= 10
         THEN /\ ret.err = "nil" /\ ~ret.isNil
              /\ doc.name = <<>> /\ doc.description = call.arg2
              /\ doc.psr4.tag = "map" /\ heap[doc.psr4.ref] = EmptyMap
         ELSE ret.err = "DescriptionTooShort" /\ ret.isNil /\ doc = NoDoc

\* CreateNew without a name refused a short description
C20_Witness ==
    /\ call.op = "CreateNew"
    /\ call.arg1 = <<>> /\ call.arg2 = ShortDesc
    /\ ret.err = "DescriptionTooShort" /\ doc = NoDoc

(***************************************************************************)
(* C21: when creation succeeds, CreateProject returns a document of type   *)
(* "project" with require["php"] = phpVersion, or "^7.4" when phpVersion   *)
(* is empty, and require-dev exactly {"phpunit/phpunit": "^9.0"};          *)
(* CreateLibrary returns type "library", the same require["php"] and an    *)
(* empty require-dev.  Both keep the name, description, license and PSR-4  *)
(* entry of CreateNew, and phpVersion is not validated.                    *)
(***************************************************************************)
C21_ProjectAndLibrary ==
    (call.op \in {"CreateProject", "CreateLibrary"} /\ ret.err = "nil")
      => LET php == IF call.recv # <<>> THEN call.recv ELSE <<"^", "7", ".", "4">>
         IN  /\ ~ret.isNil
             /\ doc.type = (IF call.op = "CreateProject" THEN "project" ELSE "library")
             /\ doc.require # 0
             /\ heap[doc.require] = Put(EmptyMap, <<"p", "h", "p">>, php)
             /\ doc.requireDev # 0
             /\ heap[doc.requireDev] =
                    (IF call.op = "CreateProject"
                     THEN Put(EmptyMap, PhpUnit, <<"^", "9", ".", "0">>)
                     ELSE EmptyMap)
             /\ doc.name = call.arg1 /\ doc.description = call.arg2
             /\ doc.license = "MIT"
             /\ doc.psr4.tag = "map"
             /\ heap[doc.psr4.ref] =
                    (IF call.arg1 = <<>> THEN EmptyMap
                     ELSE Put(EmptyMap, ExpectedNamespace(call.arg1),
                              StrVal(<<"s", "r", "c", "/">>)))

\* CreateProject without a phpVersion fell back to "^7.4"
C21_Witness ==
    /\ call.op = "CreateProject" /\ call.recv = <<>> /\ call.arg1 = PkgA
    /\ ret.err = "nil"
    /\ heap[doc.require] = Put(EmptyMap, Php, DefaultPhp)
    /\ DOMAIN heap[doc.requireDev] = {PhpUnit}

\* CreateLibrary stored a phpVersion that ValidateVersion refuses
C21_Unvalidated ==
    /\ call.op = "CreateLibrary" /\ call.recv = BadVer
    /\ ret.err = "nil"
    /\ ValidateVersion(call.recv) = "InvalidVersionFormat"
    /\ heap[doc.require][Php] = BadVer

(***************************************************************************)
(* C22: ValidateComposerJSON, and CreateNew through it, fails with         *)
(* DescriptionTooShort for every non-empty description of fewer than 10    *)
(* characters, descriptions in multi-byte characters included, and accepts *)
(* the empty description and every description of at least 10 characters.  *)
(***************************************************************************)
C22_LengthInCharacters ==
    (/\ call.op = "CreateNew"
     /\ (call.arg1 = <<>> \/ ExpectedNameKind(call.arg1) = "nil"))
      => IF call.arg2 # <<>> /\ Len(call.arg2) < 10
         THEN ret.err = "DescriptionTooShort"
         ELSE ret.err = "nil"

(***************************************************************************)
(* C23: parser.Parse and parser.ParseString give ErrReadingFile for a      *)
(* source that fails to read, ErrInvalidJSON for bytes that are not valid  *)
(* JSON (the empty input and a truncated "{" included),                    *)
(* ErrUnmarshallingJSON for valid JSON whose top level is an array, a      *)
(* boolean, a number or a string, no data and no error for null, and the   *)
(* key/value tree and no error for an object.  The document-level          *)
(* ParseString of null returns an empty document and no error.             *)
(***************************************************************************)
C23_Classification ==
    /\ call.op \in {"parser.Parse", "parser.ParseString"}
         => LET v == Decode(call.arg1)
            IN  /\ call.recv = "failing" => (ret.err = "ErrReadingFile" /\ ret.isNil)
                /\ (call.recv = "ok" /\ ~v.ok) => (ret.err = "ErrInvalidJSON" /\ ret.isNil)
                /\ (call.recv = "ok" /\ v.ok /\ v.v.k \in {"arr", "bool", "num", "str"})
                     => (ret.err = "ErrUnmarshallingJSON" /\ ret.isNil)
                /\ (call.recv = "ok" /\ v.ok /\ v.v.k = "null")
                     => (ret.err = "nil" /\ ret.isNil)
                /\ (call.recv = "ok" /\ v.ok /\ v.v.k = "obj")
                     => (ret.err = "nil" /\ ~ret.isNil /\ ret.val = v.v.m)
                /\ (call.recv = "ok" /\ call.arg1 \in {<<>>, <<"{">>, TruncatedText, TrailingText})
                     => ret.err = "ErrInvalidJSON"
                /\ (call.recv = "ok"
                      /\ call.arg1 \in {ListText, TrueText, StringText, NumberText, <<"1">>})
                     => ret.err = "ErrUnmarshallingJSON"
                /\ (call.recv = "ok" /\ call.arg1 \in {NullText, SpacedNullText})
                     => (ret.err = "nil" /\ ret.isNil)
                /\ (call.recv = "ok" /\ call.arg1 = NameText)
                     => (ret.err = "nil" /\ ret.val = Put(EmptyMap, NameKey, JStr(PkgA)))
    /\ (call.op = "ParseString" /\ call.arg1 \in {NullText, SpacedNullText})
         => /\ ret.err = "nil" /\ ~ret.isNil
            /\ doc = [NoDoc EXCEPT !.origin = "ParseString"]
            /\ heap = <<>>

\* parser.ParseString returned no data and no error for null
C23_Witness ==
    /\ call.op = "parser.ParseString" /\ call.arg1 = NullText
    /\ ret.err = "nil" /\ ret.isNil

\* parser.Parse refused a list read from a reader
C23_ListRefused ==
    /\ call.op = "parser.Parse" /\ call.recv = "ok" /\ call.arg1 = ListText
    /\ ret.err = "ErrUnmarshallingJSON"

(***************************************************************************)
(* C24: every error of the document-level ParseFile, ParseDir, Parse and   *)
(* ParseString is one of ErrFileNotFound, ErrReadingFile, ErrInvalidJSON   *)
(* and ErrUnmarshallingJSON; valid JSON that does not fit the document (a  *)
(* top level that is no object, "require" given as a list, "name" given as *)
(* a number) is reported as ErrUnmarshallingJSON.                          *)
(***************************************************************************)
C24_ErrorKinds ==
    call.op \in {"ParseFile", "ParseDir", "Parse", "ParseString"}
      => /\ ret.err \in {"nil", "ErrFileNotFound", "ErrReadingFile",
                         "ErrInvalidJSON", "ErrUnmarshallingJSON"}
         /\ (call.recv = "ok"
               /\ call.arg1 \in {ListText, TrueText, RequireListText, NameNumberText})
              => ret.err = "ErrUnmarshallingJSON"

(***************************************************************************)
(* C25 as stated: for every document for which ToJSON succeeds, pretty or  *)
(* compact, ParseString of the text succeeds and gives a document with the *)
(* same require entries, require-dev entries and GetPSR4Map result (map    *)
(* and ok flag); an empty map and an absent map are the same contents.     *)
(***************************************************************************)
SameContents ==
    /\ MapAt(heap', doc'.require) = MapAt(heap, doc.require)
    /\ MapAt(heap', doc'.requireDev) = MapAt(heap, doc.requireDev)
    /\ GetPSR4Map(heap', doc'.psr4) = GetPSR4Map(heap, doc.psr4)

ValidUTF8(s) == \A i \in 1..Len(s) : s[i] # "0xFF"

RoundTripDomain ==
    /\ \A ref \in {doc.require, doc.requireDev} :
           \A n \in DOMAIN MapAt(heap, ref) : ValidUTF8(n) /\ ValidUTF8(MapAt(heap, ref)[n])
    /\ doc.psr4.tag = "map"
         => \A ns \in DOMAIN heap[doc.psr4.ref] :
                ValidUTF8(ns) /\ ValidUTF8(heap[doc.psr4.ref][ns].s)
    /\ doc.psr4.tag = "other" => doc.psr4.v # "strmap"

C26_AddExclusion ==
    [][call'.op = "AddExclusion" =>
          LET pattern == call'.arg1
              before == doc.exclude
              after == doc'.exclude
          IN  /\ IndexesOf(before, pattern) # {} => after = before
              /\ IndexesOf(before, pattern) = {} =>
                     /\ ~after.isNil
                     /\ Len(after.elems) = Len(before.elems) + 1
                     /\ after.elems[Len(after.elems)] = pattern
                     /\ \A i \in 1..Len(before.elems) :
                            after.elems[i] = before.elems[i]
              /\ (call.op = "AddExclusion" /\ call.arg1 = pattern) =>
                     Cardinality(IndexesOf(after, pattern)) = 1]_vars

\* AddExclusion of a default pattern has returned and the list is the default
\* list
C26_Witness ==
    /\ call.op = "AddExclusion" /\ call.arg1 = VendorPattern
    /\ doc.exclude = NewArchive

\* AddExclusion has appended to the nil list of a created document
C26_NilWitness ==
    /\ call.op = "AddExclusion" /\ call.arg1 = NewPattern
    /\ doc.exclude = Slice(<<NewPattern>>)

\* no pattern occurs twice in the exclude list
NoDuplicates(a) ==
    \A i, j \in 1..Len(a.elems) : a.elems[i] = a.elems[j] => i = j

\* C30: starting from the list of a created document or of NewArchive, the
\* exclude list never holds a pattern twice, whatever AddExclusion and
\* RemoveExclusion calls are made; RemoveExclusion returns true exactly when
\* the pattern was in the list, it then removes that one occurrence, keeps the
\* order of the others and the pattern is absent afterwards; when the pattern
\* was not in the list it returns false and leaves the list unchanged.
C30_RemoveExclusion ==
    /\ [](NoDuplicates(doc.exclude))
    /\ [][call'.op = "RemoveExclusion" =>
             LET pattern == call'.arg1
                 before == doc.exclude
                 after == doc'.exclude
             IN  /\ ret'.ok <=> (IndexesOf(before, pattern) # {})
                 /\ ret'.ok =>
                        /\ \E i \in IndexesOf(before, pattern) :
                               /\ Len(after.elems) = Len(before.elems) - 1
                               /\ \A k \in 1..Len(after.elems) :
                                      after.elems[k] =
                                          before.elems[IF k < i THEN k ELSE k + 1]
                        /\ IndexesOf(after, pattern) = {}
                 /\ ~ret'.ok => after = before]_vars

\* RemoveExclusion has cut "/tests" out of the middle of the default list
C30_Witness ==
    /\ call.op = "RemoveExclusion" /\ call.arg1 = TestsPattern /\ ret.ok
    /\ doc.exclude.elems = SubSeq(NewArchive.elems, 1, 5)
                            \o SubSeq(NewArchive.elems, 7, 9)

\* C27: in every document that CreateNew, CreateProject or CreateLibrary made
\* and that only AddDependency, AddDevDependency, RemoveDependency and
\* RemoveDevDependency changed, every key of require and of require-dev is a
\* name ValidatePackageName accepts.
C27_KeysValid ==
    doc.origin = "CreateNew" =>
        \A n \in (DOMAIN MapAt(heap, doc.require))
                  \cup (DOMAIN MapAt(heap, doc.requireDev)) :
            ValidatePackageName(n) = "nil"

\* every key but the "php" that CreateProject and CreateLibrary write is valid
C27_KeysValidButPhp ==
    doc.origin = "CreateNew" =>
        \A n \in ((DOMAIN MapAt(heap, doc.require))
                   \cup (DOMAIN MapAt(heap, doc.requireDev))) \ {Php} :
            ValidatePackageName(n) = "nil"

\* C28: RemovePSR4(ns) returns true if and only if ns was a key of the map
\* that GetPSR4Map returned with ok = true immediately before the call,
\* whatever the PSR4 field holds, maps with non-string values included.
C28_SameNamespaces ==
    [][call'.op = "RemovePSR4" =>
          LET before == GetPSR4Map(heap, doc.psr4)
          IN  ret'.ok <=> (before.ok /\ call'.arg1 \in DOMAIN before.val)]_vars

\* C28 as the code has it: RemovePSR4(ns) returns true if and only if the
\* PSR4 field is a map (GetPSR4Map gives ok = true) and ns is a key of that
\* map, whether GetPSR4Map returned the key or dropped it for its non-string
\* value; every key GetPSR4Map returned is a key RemovePSR4 removes.
C28_StoredNamespaces ==
    [][call'.op = "RemovePSR4" =>
          LET before == GetPSR4Map(heap, doc.psr4)
              ns == call'.arg1
              dropped == IF doc.psr4.tag # "map" THEN {}
                         ELSE {x \in DOMAIN heap[doc.psr4.ref] :
                                  ~heap[doc.psr4.ref][x].isStr}
          IN  /\ ret'.ok <=> (before.ok /\ ns \in (DOMAIN before.val) \cup dropped)
              /\ (DOMAIN before.val) \cap dropped = {}]_vars

\* RemovePSR4 has removed the key whose value was a number
C28_Witness ==
    /\ call.op = "RemovePSR4" /\ call.arg1 = NsB /\ ret.ok
    /\ doc.origin = "ParseString"
    /\ doc.psr4.tag = "map"
    /\ DOMAIN heap[doc.psr4.ref] = {NsA}
    /\ heap[doc.psr4.ref][NsA] = StrVal(SrcDir)

\* the members of the object under key in the JSON object text
MembersOf(text, key) ==
    LET v == Decode(text).v
        f == IF v.k = "obj" THEN Field(v.m, key) ELSE Absent
    IN  IF f.k = "obj" THEN f.m ELSE EmptyMap

\* the options of the config block that the Config type declares
DeclaredOptions ==
    {ProcessTimeoutKey, SecureHttpKey, VendorDirKey, CacheFilesMaxsizeKey,
     UseGithubApiKey}

\* C29: every declared option of the config block and every member of extra
\* that the ingested JSON object holds, options set to false, 0 or the empty
\* string included, is in the text ToJSON gives for the resulting document,
\* with the same value.
C29_Passthrough ==
    [][(call.op = "ParseString" /\ ret.err = "nil"
           /\ call'.op = "ToJSON" /\ ret'.err = "nil") =>
          /\ \A o \in DeclaredOptions \cap DOMAIN MembersOf(call.arg1, ConfigKey) :
                 /\ o \in DOMAIN MembersOf(ret'.val, ConfigKey)
                 /\ MembersOf(ret'.val, ConfigKey)[o] = MembersOf(call.arg1, ConfigKey)[o]
          /\ \A x \in DOMAIN MembersOf(call.arg1, ExtraKey) :
                 /\ x \in DOMAIN MembersOf(ret'.val, ExtraKey)
                 /\ MembersOf(ret'.val, ExtraKey)[x] = MembersOf(call.arg1, ExtraKey)[x]]_vars

\* what the code keeps: the options that have a field of their own and a
\* value other than false, 0 and "", and the members of extra
C29_NonZeroKept ==
    [][(call.op = "ParseString" /\ ret.err = "nil"
           /\ call'.op = "ToJSON" /\ ret'.err = "nil") =>
          /\ \A o \in ConfigFields \cap DOMAIN MembersOf(call.arg1, ConfigKey) :
                 MembersOf(call.arg1, ConfigKey)[o]
                       \notin {JBool(FALSE), JNumber(<<"0">>), JStr(<<>>)} =>
                     /\ o \in DOMAIN MembersOf(ret'.val, ConfigKey)
                     /\ MembersOf(ret'.val, ConfigKey)[o]
                            = MembersOf(call.arg1, ConfigKey)[o]
          /\ \A x \in DOMAIN MembersOf(call.arg1, ExtraKey) :
                 /\ x \in DOMAIN MembersOf(ret'.val, ExtraKey)
                 /\ MembersOf(ret'.val, ExtraKey)[x] = MembersOf(call.arg1, ExtraKey)[x]]_vars

====
